---- MODULE Spec2Model ----
(***************************************************************************)
(* Tick-driven simulation engine of the Von Neumann probe game: the probe  *)
(* state machine (logic/gameLoop.ts), the autonomy engine                  *)
(* (logic/autonomySystem.ts, logic/aiBehaviorSystem.ts), the lazy sector   *)
(* generator (logic/sectorGeneration.ts, utils/gameHelpers.ts), the tick   *)
(* scheduler (App.tsx) and the command handlers (handlers/*.ts).           *)
(*                                                                         *)
(* Number representation.  The program computes with IEEE doubles; the     *)
(* model computes with integers on fixed grids and the inputs (tick        *)
(* deltas, positions, stats) are chosen so that every quotient is exact:   *)
(*   - time                      milliseconds                              *)
(*   - positions, distances      whole map units; every object lies on the *)
(*                               line y = RowY, headings are 0 or 180      *)
(*   - miningBuffer              1/1000 resource unit  (BufferUnit)        *)
(*   - progress                  1/1000 of the program's unit (ProgUnit):  *)
(*                               100000 is "100", Traveling's 1.0 is 1000  *)
(*   - rates 0.2, 0.2, 0.05      numerators over 10, 10 and 100            *)
(* Timestamps.  Date.now() is not a state variable.  A field that the      *)
(* program fills with Date.now() (lastReplicationTime, lastDiversionCheck, *)
(* lastSafetyCheck) holds the time elapsed since that moment, saturated at *)
(* the largest value the program distinguishes, or Never when the field is *)
(* undefined; each tick ages the field by its delta.  The program only     *)
(* ever reads these fields as "now - field".                               *)
(* References.  null / undefined system ids are Null; array indexes are    *)
(* 1-based and a failed find is index 0.                                   *)
(***************************************************************************)
EXTENDS Integers, Sequences, FiniteSets, TLC

Null == 0
NoOverride == 0
NoHeading == 0 - 1
Never == 0 - 1
BufferUnit == 1000
ProgUnit == 1000
RowY == 2500

\* constants.ts
SECTOR_SIZE == 1000
FUEL_CONSUMPTION_RATE_X10 == 2
TURN_COST_PER_DEGREE_X10 == 2
SOLAR_SAIL_SPEED_DIVISOR == 20
PASSIVE_SCAN_RANGE == 150
RESEARCH_RATE_BASE == 2
RELAY_DEPLOY_COST_METAL == 400
RELAY_NETWORK == "relay_network"

Min(a, b) == IF a < b THEN a ELSE b

StatKeys == {"miningSpeed", "flightSpeed", "replicationSpeed", "scanRange", "scanSpeed", "autonomyLevel"}

\* maxStatLevelOverrides: {}
NoOverrides == [ k \in StatKeys |-> NoOverride ]

\* Array.prototype.includes
Includes(arr, x) == \E k \in 1..Len(arr) : arr[k] = x
Max(a, b) == IF a > b THEN a ELSE b
Abs(a) == IF a < 0 THEN 0 - a ELSE a

RECURSIVE ISqrtFrom(_, _)
ISqrtFrom(n, r) == IF (r + 1) * (r + 1) > n THEN r ELSE ISqrtFrom(n, r + 1)

\* Math.hypot on the grid: exact for axis-aligned vectors, floor otherwise
Hypot(dx, dy) ==
  IF dy = 0 THEN Abs(dx)
  ELSE IF dx = 0 THEN Abs(dy)
  ELSE ISqrtFrom(dx * dx + dy * dy, 0)

Dist(a, b) == Hypot(a.x - b.x, a.y - b.y)

\* Math.atan2(ty, tx) * 180 / PI, normalised to 0..360, for vectors on the row
HeadingTo(tx, ty) == IF tx < 0 THEN 180 ELSE 0

\* Math.cos(heading * PI / 180) for the headings 0 and 180
CosDeg(h) == IF h = 180 THEN 0 - 1 ELSE 1

\* let diff = Math.abs(a - b); if (diff > 180) diff = 360 - diff
AngleDiff(a, b) == LET d == Abs(a - b) IN IF d > 180 THEN 360 - d ELSE d

\* Math.floor(dist * FUEL_CONSUMPTION_RATE)
FuelNeeded(dist) == (dist * FUEL_CONSUMPTION_RATE_X10) \div 10

\* diff * TURN_COST_PER_DEGREE
TurnCost(diff) == (diff * TURN_COST_PER_DEGREE_X10) \div 10

\* { ...target, ...updates }; spreading undefined contributes no field
Merge(target, updates) ==
  [f \in (DOMAIN target) \cup (DOMAIN updates) |->
     IF f \in DOMAIN updates THEN updates[f] ELSE target[f]]

\* an entry of the systems array that has the fields of a SolarSystem
IsSystem(s) == "id" \in DOMAIN s

\* systems.findIndex((s) => s.id === id), 0 when there is none
RECURSIVE FindIndexFrom(_, _, _)
FindIndexFrom(systems, id, i) ==
  IF i > Len(systems) THEN 0
  ELSE IF IsSystem(systems[i]) /\ systems[i].id = id THEN i
  ELSE FindIndexFrom(systems, id, i + 1)

FindIndex(systems, id) == FindIndexFrom(systems, id, 1)

\* newSystems[update.index] = { ...newSystems[update.index], ...update.updates }
\* an index one past the end stores the bare updates object as a new element
ApplyUpdate(systems, update) ==
  IF update.index <= Len(systems)
  THEN [systems EXCEPT ![update.index] = Merge(@, update.updates)]
  ELSE Append(systems, update.updates)

RECURSIVE ApplyUpdates(_, _)
ApplyUpdates(systems, updates) ==
  IF updates = << >> THEN systems
  ELSE ApplyUpdates(ApplyUpdate(systems, Head(updates)), Tail(updates))

VARIABLES
  probes,              \* GameState.probes
  systems,             \* GameState.systems
  generatedSectors,    \* GameState.generatedSectors
  science,             \* GameState.science
  relays,              \* GameState.relays (the systemId of each relay)
  purchasedUnlocks,    \* GameState.purchasedUnlocks, an array of unlock ids
  maxStatLevelOverrides, \* GameState.maxStatLevelOverrides (NoOverride: the stat has no entry)
  unlockedAIBehaviors, \* GameState.unlockedAIBehaviors
  selectedProbeId,     \* GameState.selectedProbeId
  undefinedFields,     \* the fields of GameState that hold undefined or NaN; the
                       \* variable of such a field holds its empty value
  pendingNames,        \* the probe ids of the generateProbeName calls not yet answered
  rendered,            \* the gameState of the last render, closed over by the handlers
  hist                 \* what the last step did (observation only)

vars == << probes, systems, generatedSectors, science, relays, purchasedUnlocks,
           unlockedAIBehaviors, selectedProbeId, undefinedFields, pendingNames,
           maxStatLevelOverrides, rendered, hist >>

(***************************************************************************)
(* logic/sectorGeneration.ts and utils/gameHelpers.ts                      *)
(***************************************************************************)

\* `${sectorX},${sectorY}` for a position
SectorX(position) == position.x \div SECTOR_SIZE
SectorY(position) == position.y \div SECTOR_SIZE
SectorKey(position) == << SectorX(position), SectorY(position) >>

\* `sys-${sectorX}-${sectorY}-${i}-${Date.now()}`: the stamp stands for
\* Date.now(), equal for the calls of one tick and new in every later tick
SystemId(sectorX, sectorY, i, stamp) ==
  10000 + stamp * 1000 + (sectorX + 4) * 100 + (sectorY + 4) * 10 + i

\* One outcome of the Math.random() draws of generateSystemsForSector: the
\* sequence of systems to create, each an offset in the sector (50..949),
\* abundances (5..100), yields and science.
GenOutcomes ==
  { << >>,
    << [offX |-> 100, abundance |-> 50, yieldMetal |-> 1200, yieldPlutonium |-> 600, science |-> 22] >> }

RECURSIVE GenerateFrom(_, _, _, _, _)
GenerateFrom(sectorX, sectorY, outcome, stamp, i) ==
  IF i > Len(outcome) THEN << >>
  ELSE << [ id |-> SystemId(sectorX, sectorY, i - 1, stamp),
            position |-> [x |-> sectorX * SECTOR_SIZE + outcome[i].offX,
                          y |-> sectorY * SECTOR_SIZE + (RowY % SECTOR_SIZE)],
            visited |-> FALSE,
            analyzed |-> FALSE,
            discovered |-> FALSE,
            resources |-> [Metal |-> outcome[i].abundance, Plutonium |-> outcome[i].abundance],
            resourceYield |-> [Metal |-> outcome[i].yieldMetal, Plutonium |-> outcome[i].yieldPlutonium],
            scienceRemaining |-> outcome[i].science,
            scienceTotal |-> outcome[i].science ] >>
       \o GenerateFrom(sectorX, sectorY, outcome, stamp, i + 1)

generateSystemsForSector(sectorX, sectorY, outcome, stamp) ==
  GenerateFrom(sectorX, sectorY, outcome, stamp, 1)

checkSectorGeneration(position, sectors, outcome, stamp) ==
  IF SectorKey(position) \notin sectors
  THEN [ generated |-> TRUE,
         sectorKey |-> << SectorKey(position) >>,
         newSystems |-> generateSystemsForSector(SectorX(position), SectorY(position), outcome, stamp) ]
  ELSE [ generated |-> FALSE, sectorKey |-> << >>, newSystems |-> << >> ]

RECURSIVE PassiveScanFrom(_, _, _)
PassiveScanFrom(position, syss, i) ==
  IF i > Len(syss) THEN << >>
  ELSE (IF ~syss[i].discovered /\ Dist(syss[i].position, position) <= PASSIVE_SCAN_RANGE
        THEN << [index |-> i, updates |-> [discovered |-> TRUE]] >>
        ELSE << >>)
       \o PassiveScanFrom(position, syss, i + 1)

performPassiveScan(position, syss) == PassiveScanFrom(position, syss, 1)

(***************************************************************************)
(* logic/gameLoop.ts: the state processors.  Each returns the updated      *)
(* probe and the requests it hands to the tick; threw is TRUE when the     *)
(* JavaScript evaluation raises a TypeError.                               *)
(***************************************************************************)

NoResult(probe) ==
  [ probe |-> probe, systemUpdates |-> << >>, newProbes |-> << >>, scienceDelta |-> 0,
    sectorGenerated |-> FALSE, newSystems |-> << >>, systemYieldUpdate |-> << >>,
    threw |-> FALSE, obs |-> << >> ]

\* an arrival that toggles the flags
ToggleFlags(targetSys) == [visited |-> ~targetSys.visited, discovered |-> ~targetSys.discovered]

\* updates: { visited: true, discovered: true }
ArrivalUpdates(targetSys) == [visited |-> TRUE, discovered |-> TRUE]

\* a sail that gives no thrust
BecalmedStep(probe, totalDist, delta) ==
  IF totalDist = 0 THEN ProgUnit
  ELSE IF probe.isSolarSailing THEN 0
  ELSE (10 * probe.stats.flightSpeed * delta) \div totalDist

\* unitsPerSecond * (delta / 1000) / totalDist, in 1/ProgUnit of the way
TravelStep(probe, totalDist, delta) ==
  IF totalDist = 0 THEN ProgUnit
  ELSE IF probe.isSolarSailing
       THEN (10 * probe.stats.flightSpeed * delta) \div (SOLAR_SAIL_SPEED_DIVISOR * totalDist)
       ELSE (10 * probe.stats.flightSpeed * delta) \div totalDist

processTravelingProbe(probe, syss, delta) ==
  LET startIdx == FindIndex(syss, probe.locationId)
      targetIdx == FindIndex(syss, probe.targetSystemId)
  IN
  IF startIdx = 0 \/ targetIdx = 0 THEN NoResult(probe)
  ELSE
    LET startSys == syss[startIdx]
        targetSys == syss[targetIdx]
        totalDist == Dist(targetSys.position, startSys.position)
        newProgress == probe.progress + TravelStep(probe, totalDist, delta)
        currentPos == [ x |-> startSys.position.x
                                + ((targetSys.position.x - startSys.position.x) * newProgress) \div ProgUnit,
                        y |-> startSys.position.y
                                + ((targetSys.position.y - startSys.position.y) * newProgress) \div ProgUnit ]
        scan == performPassiveScan(currentPos, syss)
    IN
    IF newProgress >= ProgUnit
    THEN [ NoResult(probe) EXCEPT
             !.probe = [probe EXCEPT !.state = "Idle",
                                     !.locationId = targetSys.id,
                                     !.position = targetSys.position,
                                     !.progress = 0,
                                     !.isSolarSailing = FALSE],
             !.systemUpdates =
                scan \o (IF ~targetSys.visited \/ ~targetSys.discovered
                         THEN << [index |-> targetIdx, updates |-> ArrivalUpdates(targetSys)] >>
                         ELSE << >>) ]
    ELSE [ NoResult(probe) EXCEPT
             !.probe = [probe EXCEPT !.progress = newProgress, !.position = currentPos],
             !.systemUpdates = scan ]

\* the amount of a step taken whole
WholeAmount(amount, remaining) == amount

\* Math.min(amount, remaining)
ToCollect(amount, remaining) == Min(amount, remaining)

processResearchingProbe(probe, syss, delta) ==
  LET sysIndex == FindIndex(syss, probe.locationId) IN
  IF sysIndex = 0
  THEN [ NoResult(probe) EXCEPT !.probe = [probe EXCEPT !.state = "Idle", !.progress = 0] ]
  ELSE
    LET system == syss[sysIndex]
        remaining == system.scienceRemaining
    IN
    IF remaining <= 0
    THEN [ NoResult(probe) EXCEPT !.probe = [probe EXCEPT !.state = "Idle", !.progress = 0] ]
    ELSE
      LET \* RESEARCH_RATE_BASE * Math.max(0.1, scanSpeed) * (delta / 1000)
          amount == IF probe.stats.scanSpeed = 0
                    THEN (RESEARCH_RATE_BASE * delta) \div 10000
                    ELSE (RESEARCH_RATE_BASE * probe.stats.scanSpeed * delta) \div 1000
          toCollect == ToCollect(amount, remaining)
          newRemaining == Max(0, remaining - toCollect)
          progressTotal == IF system.scienceTotal > 0 THEN system.scienceTotal ELSE remaining
          collectedSoFar == progressTotal - newRemaining
          pct == Min(100 * ProgUnit, (collectedSoFar * 100 * ProgUnit) \div progressTotal)
      IN
      [ NoResult(probe) EXCEPT
          !.probe = IF newRemaining <= 0
                    THEN [probe EXCEPT !.state = "Idle", !.progress = 0]
                    ELSE [probe EXCEPT !.progress = pct],
          !.systemUpdates = << [index |-> sysIndex, updates |-> [scienceRemaining |-> newRemaining]] >>,
          !.scienceDelta = toCollect,
          !.obs = << [ kind |-> "research", id |-> probe.id, index |-> sysIndex,
                       scanSpeed |-> probe.stats.scanSpeed, before |-> remaining,
                       gained |-> toCollect,
                       state |-> IF newRemaining <= 0 THEN "Idle" ELSE probe.state ] >> ]

\* the auto-dock loop: index of the first system within 5 units, 0 when there
\* is none, -1 when the loop reaches an entry without a position (TypeError)
RECURSIVE DockIndexFrom(_, _, _)
DockIndexFrom(position, syss, i) ==
  IF i > Len(syss) THEN 0
  ELSE IF ~IsSystem(syss[i]) THEN 0 - 1
  ELSE IF Dist(syss[i].position, position) <= 5 THEN i
  ELSE DockIndexFrom(position, syss, i + 1)

\* forEach with "if (d < min) { min = d; nearest = s }": index of the nearest
\* entry of syss that satisfies keep and lies closer than limit, 0 for none
RECURSIVE NearestFrom(_, _, _, _, _, _)
NearestFrom(position, syss, keep(_), i, best, bestDist) ==
  IF i > Len(syss) THEN best
  ELSE IF keep(syss[i]) /\ Dist(syss[i].position, position) < bestDist
       THEN NearestFrom(position, syss, keep, i + 1, i, Dist(syss[i].position, position))
       ELSE NearestFrom(position, syss, keep, i + 1, best, bestDist)

Infinity == 1000000

Nearest(position, syss, keep(_), limit) == NearestFrom(position, syss, keep, 1, 0, limit)

Unexplored(s) == s.discovered /\ (~s.visited \/ ~s.analyzed)
Discovered(s) == s.discovered

\* a check that is due in every frame
AlwaysDue(elapsed) == TRUE

\* "!probe.lastXCheck || now - probe.lastXCheck > 1000" on an aged field
CheckDue(elapsed) == elapsed = Never \/ elapsed > 1000

processExploringProbe(probe, syss, sectors, delta, outcome, stamp) ==
  IF probe.heading = NoHeading THEN NoResult(probe)
  ELSE
    LET hasFuel == probe.inventory.Plutonium > 0
        \* 10 * flightSpeed * (delta / 1000), times 0.05 without fuel
        moveDist == IF hasFuel THEN (probe.stats.flightSpeed * delta) \div 100
                    ELSE (10 * probe.stats.flightSpeed * delta) \div (SOLAR_SAIL_SPEED_DIVISOR * 1000)
        position == [x |-> probe.position.x + CosDeg(probe.heading) * moveDist, y |-> probe.position.y]
        fuelCost == (moveDist * FUEL_CONSUMPTION_RATE_X10) \div 10
        burned == IF hasFuel THEN Max(0, probe.inventory.Plutonium - fuelCost)
                  ELSE probe.inventory.Plutonium
        sectorResult == checkSectorGeneration(position, sectors, outcome, stamp)
        dockIdx == DockIndexFrom(position, syss, 1)
        moved == [probe EXCEPT !.position = position, !.inventory.Plutonium = burned]
        obs(divertChecked, safetyChecked) ==
          << [kind |-> "explore", generated |-> sectorResult.sectorKey,
              from |-> probe.position.x, to |-> position.x, fuelBefore |-> probe.inventory.Plutonium,
              divertChecked |-> divertChecked, sinceDivert |-> probe.lastDiversionCheck,
              safetyChecked |-> safetyChecked, sinceSafety |-> probe.lastSafetyCheck] >>
    IN
    IF dockIdx < 0 THEN [ NoResult(probe) EXCEPT !.threw = TRUE ]
    ELSE IF dockIdx > 0
    THEN [ NoResult(probe) EXCEPT
             !.probe = [moved EXCEPT !.state = "Idle",
                                     !.locationId = syss[dockIdx].id,
                                     !.position = syss[dockIdx].position,
                                     !.heading = NoHeading],
             !.systemUpdates = IF ~syss[dockIdx].visited \/ ~syss[dockIdx].discovered
                               THEN << [index |-> dockIdx, updates |-> [visited |-> TRUE, discovered |-> TRUE]] >>
                               ELSE << >>,
             !.sectorGenerated = sectorResult.generated,
             !.newSystems = sectorResult.newSystems,
             !.obs = obs(FALSE, FALSE) ]
    ELSE
      LET allSystems == syss \o sectorResult.newSystems
          scan == performPassiveScan(position, allSystems)
          \* auto-divert
          divertDue == probe.stats.autonomyLevel > 0 /\ probe.isAutonomyEnabled
                         /\ CheckDue(probe.lastDiversionCheck)
          tIdx == IF divertDue THEN Nearest(position, allSystems, Unexplored, probe.stats.scanRange) ELSE 0
          tHeading == IF tIdx > 0 THEN HeadingTo(allSystems[tIdx].position.x - position.x, 0) ELSE probe.heading
          turnCost == TurnCost(AngleDiff(tHeading, probe.heading))
          p1 == IF tIdx = 0
                THEN [moved EXCEPT !.lastDiversionCheck = IF divertDue THEN 0 ELSE @]
                ELSE [moved EXCEPT
                        !.lastDiversionCheck = 0,
                        !.heading = tHeading,
                        !.inventory.Plutonium = IF burned >= turnCost THEN burned - turnCost ELSE 0,
                        !.isSolarSailing = IF burned >= turnCost THEN @ ELSE TRUE]
          \* safety protocol
          safetyDue == hasFuel /\ CheckDue(probe.lastSafetyCheck)
          nIdx == IF safetyDue THEN Nearest(position, allSystems, Discovered, Infinity) ELSE 0
          minDist == IF nIdx > 0 THEN Dist(allSystems[nIdx].position, position) ELSE 0
          rHeading == IF nIdx > 0 THEN HeadingTo(allSystems[nIdx].position.x - position.x, 0) ELSE p1.heading
          rDiff == AngleDiff(rHeading, p1.heading)
          \* Plutonium < (minDist * 0.2 + diff * 0.2) * 1.2
          critical == nIdx > 0 /\ 100 * p1.inventory.Plutonium
                                    < 12 * (minDist * FUEL_CONSUMPTION_RATE_X10 + rDiff * TURN_COST_PER_DEGREE_X10)
          p2 == IF ~safetyDue THEN p1
                ELSE IF ~critical THEN [p1 EXCEPT !.lastSafetyCheck = 0]
                ELSE [p1 EXCEPT !.lastSafetyCheck = 0,
                                !.heading = rHeading,
                                !.inventory.Plutonium = Max(0, @ - TurnCost(rDiff))]
      IN
      [ NoResult(probe) EXCEPT
          !.probe = p2,
          !.systemUpdates = scan,
          !.sectorGenerated = sectorResult.generated,
          !.newSystems = sectorResult.newSystems,
          !.obs = obs(divertDue, safetyDue) ]

\* baseRate * (abundance / 100) * miningSpeed * (delta / 1000), in 1/BufferUnit
MiningAmount(abundance, miningSpeed, delta) == (2 * abundance * miningSpeed * delta) \div 100

ResourceOf(state) == IF state = "MiningMetal" THEN "Metal" ELSE "Plutonium"

Unclamped(transferAmount, available) == transferAmount

\* Math.min(transferAmount, system.resourceYield[resourceType])
ClampTransfer(transferAmount, available) == Min(transferAmount, available)

\* a transfer booked with the wrong sign
Replenished(available, actualTransfer) == available + actualTransfer

\* newYield: system.resourceYield[resourceType] - actualTransfer
NewYield(available, actualTransfer) == available - actualTransfer

processMiningProbe(probe, syss, delta) ==
  LET sysIndex == FindIndex(syss, probe.locationId) IN
  IF sysIndex = 0 THEN NoResult(probe)
  ELSE
    LET system == syss[sysIndex]
        resourceType == ResourceOf(probe.state)
        available == system.resourceYield[resourceType]
    IN
    IF available > 0
    THEN
      LET buffer == probe.miningBuffer
                      + MiningAmount(system.resources[resourceType], probe.stats.miningSpeed, delta)
          transferAmount == buffer \div BufferUnit
          actualTransfer == ClampTransfer(transferAmount, available)
          obs == << [kind |-> "mine", index |-> sysIndex, resourceType |-> resourceType,
                     available |-> available, buffer |-> buffer,
                     gained |-> IF buffer >= BufferUnit THEN actualTransfer ELSE 0] >>
      IN
      IF buffer >= BufferUnit
      THEN [ NoResult(probe) EXCEPT
               !.probe = [probe EXCEPT
                            !.inventory[resourceType] = @ + actualTransfer,
                            !.miningBuffer = buffer - transferAmount * BufferUnit,
                            !.progress = Min((buffer - transferAmount * BufferUnit) * 100, 100 * ProgUnit)],
               !.systemYieldUpdate = << [index |-> sysIndex, resourceType |-> resourceType,
                                         newYield |-> NewYield(available, actualTransfer)] >>,
               !.obs = obs ]
      ELSE [ NoResult(probe) EXCEPT
               !.probe = [probe EXCEPT !.miningBuffer = buffer,
                                       !.progress = Min(buffer * 100, 100 * ProgUnit)],
               !.obs = obs ]
    ELSE [ NoResult(probe) EXCEPT
             !.probe = [probe EXCEPT !.state = "Idle", !.progress = 0, !.miningBuffer = 0] ]

\* the probe literal built by processReplicatingProbe; fields it does not set
\* are undefined
NewProbe(newId, parent, blueprint) ==
  [ id |-> newId,
    name |-> IF blueprint.isCustom THEN "custom" ELSE "Constructing...",
    state |-> "Idle",
    locationId |-> parent.locationId,
    originSystemId |-> parent.locationId,
    lastScannedSystemId |-> parent.locationId,
    position |-> parent.position,
    targetSystemId |-> Null,
    heading |-> NoHeading,
    inventory |-> IF blueprint.initialInventory # << >>
                  THEN blueprint.initialInventory[1]
                  ELSE [Metal |-> 0, Plutonium |-> 0],
    stats |-> blueprint.stats,
    progress |-> 0,
    miningBuffer |-> 0,
    isSolarSailing |-> FALSE,
    isAutonomyEnabled |-> TRUE,
    aiBehavior |-> "None",
    aiModules |-> {},
    miningBatchProgress |-> 0,
    lastReplicationTime |-> Never,
    lastDiversionCheck |-> 0,
    lastSafetyCheck |-> Never,
    pendingBlueprint |-> << >>,
    aiDecisionLog |-> << >> ]

processReplicatingProbe(probe, delta, newId) ==
  IF probe.pendingBlueprint = << >>
  THEN [ NoResult(probe) EXCEPT !.probe = [probe EXCEPT !.state = "Idle"] ]
  ELSE
    LET pendingBlueprint == probe.pendingBlueprint[1]
        baseTime == pendingBlueprint.cost.time
        \* (delta / (baseTime / Math.max(0.1, replicationSpeed))) * 100, in 1/ProgUnit
        step == IF probe.stats.replicationSpeed = 0
                THEN (delta * 100) \div (baseTime \div 100)
                ELSE (delta * probe.stats.replicationSpeed * 1000) \div (baseTime \div 100)
        progress == probe.progress + step
    IN
    IF progress >= 100 * ProgUnit
    THEN [ NoResult(probe) EXCEPT
             !.probe = [probe EXCEPT !.state = "Idle", !.progress = 0, !.pendingBlueprint = << >>],
             !.newProbes = << NewProbe(newId, probe, pendingBlueprint) >>,
             !.obs = << [kind |-> "spawn", parentLocation |-> probe.locationId, child |-> newId] >> ]
    ELSE [ NoResult(probe) EXCEPT !.probe = [probe EXCEPT !.progress = progress] ]

\* the scan sweep of processScanningProbe over systems followed by newSystems:
\* update requests for the entries of systems, direct marks on newSystems
RECURSIVE SweepUpdates(_, _, _, _)
SweepUpdates(position, range, syss, i) ==
  IF i > Len(syss) THEN << >>
  ELSE (IF ~syss[i].discovered /\ Dist(syss[i].position, position) <= range
        THEN << [index |-> i, updates |-> [discovered |-> TRUE]] >>
        ELSE << >>)
       \o SweepUpdates(position, range, syss, i + 1)

SweepMark(position, range, fresh) ==
  [ i \in 1..Len(fresh) |->
      IF ~fresh[i].discovered /\ Dist(fresh[i].position, position) <= range
      THEN [fresh[i] EXCEPT !.discovered = TRUE]
      ELSE fresh[i] ]

processScanningProbe(probe, syss, sectors, delta, outcome, stamp) ==
  LET \* scanSpeed * (delta / 30), in 1/ProgUnit
      progress == probe.progress + (probe.stats.scanSpeed * delta * 100) \div 3
  IN
  IF progress >= 100 * ProgUnit
  THEN
    LET sectorResult == checkSectorGeneration(probe.position, sectors, outcome, stamp)
        range == probe.stats.scanRange
    IN
    [ NoResult(probe) EXCEPT
        !.probe = [probe EXCEPT
                     !.state = "Idle",
                     !.progress = 0,
                     !.lastScannedSystemId = IF probe.locationId # Null THEN probe.locationId ELSE @],
        !.systemUpdates = SweepUpdates(probe.position, range, syss, 1),
        !.sectorGenerated = sectorResult.generated,
        !.newSystems = SweepMark(probe.position, range, sectorResult.newSystems),
        !.obs = << [kind |-> "scan", generated |-> sectorResult.sectorKey] >> ]
  ELSE [ NoResult(probe) EXCEPT !.probe = [probe EXCEPT !.progress = progress] ]

(***************************************************************************)
(* logic/aiBehaviorSystem.ts: the behaviour modes.  A decision is a        *)
(* sequence: << >> for null, otherwise one BehaviorDecision.               *)
(***************************************************************************)

REPLICATION_METAL == 500
REPLICATION_PLUTONIUM == 300
REPLICATION_COOLDOWN == 20000
REPLICATION_TIME == 10000
BATCH_SIZE == 10

Decision(action, reason) ==
  << [action |-> action, reason |-> reason, targetSystemId |-> Null, threw |-> FALSE] >>

TravelTo(targetSystemId, reason) ==
  << [action |-> "travel", reason |-> reason, targetSystemId |-> targetSystemId, threw |-> FALSE] >>

Throws == << [action |-> "idle", reason |-> "TypeError", targetSystemId |-> Null, threw |-> TRUE] >>

\* some entry of the array lacks the SolarSystem fields
HasBareEntry(syss) == \E i \in 1..Len(syss) : ~IsSystem(syss[i])

processDefaultBehavior(probe, currentSystem, previousState) ==
  IF currentSystem = << >> THEN << >>
  ELSE
    LET system == currentSystem[1]
        batchProgress == probe.miningBatchProgress
        stateToCheck == IF previousState # "undefined" THEN previousState ELSE probe.state
        currentlyMiningMetal == stateToCheck = "MiningMetal"
        shouldSwitch == batchProgress >= BATCH_SIZE \/ stateToCheck = "Idle"
        targetResource ==
          IF shouldSwitch
          THEN (IF currentlyMiningMetal THEN "plutonium" ELSE "metal")
          ELSE (IF currentlyMiningMetal THEN "metal" ELSE "plutonium")
    IN
    IF targetResource = "metal" /\ system.resourceYield.Metal > 0
    THEN Decision("mine_metal", IF shouldSwitch THEN "switching to Metal" ELSE "mining Metal")
    ELSE IF targetResource = "plutonium" /\ system.resourceYield.Plutonium > 0
    THEN Decision("mine_plutonium", IF shouldSwitch THEN "switching to Plutonium" ELSE "mining Plutonium")
    ELSE IF system.resourceYield.Metal > 0 THEN Decision("mine_metal", "Metal (fallback)")
    ELSE IF system.resourceYield.Plutonium > 0 THEN Decision("mine_plutonium", "Plutonium (fallback)")
    ELSE Decision("idle", "all resources depleted")

processFocusMining(probe, syss, currentSystem) ==
  IF currentSystem # << >> /\ currentSystem[1].resourceYield.Metal > 0
  THEN Decision("mine_metal", "extracting Metal")
  ELSE IF currentSystem # << >> /\ currentSystem[1].resourceYield.Plutonium > 0
  THEN Decision("mine_plutonium", "extracting Plutonium")
  ELSE IF HasBareEntry(syss) THEN Throws
  ELSE
    LET Rich(s) == s.discovered /\ s.id # probe.locationId
                     /\ (s.resourceYield.Metal > 100 \/ s.resourceYield.Plutonium > 50)
        nearest == Nearest(probe.position, syss, Rich, Infinity)
    IN
    IF nearest = 0
    THEN (IF currentSystem # << >> THEN processDefaultBehavior(probe, currentSystem, "undefined") ELSE << >>)
    ELSE IF probe.inventory.Plutonium >= FuelNeeded(Dist(syss[nearest].position, probe.position))
    THEN TravelTo(syss[nearest].id, "Focus Mining: traveling")
    ELSE IF currentSystem # << >> /\ currentSystem[1].resourceYield.Plutonium > 0
    THEN Decision("mine_plutonium", "Focus Mining: refueling")
    ELSE Decision("idle", "Focus Mining: no viable targets")

processFocusExploring(probe, syss, currentSystem) ==
  IF currentSystem # << >> /\ probe.lastScannedSystemId # currentSystem[1].id
  THEN Decision("scan", "scanning new arrival")
  ELSE IF HasBareEntry(syss) THEN Throws
  ELSE
    LET Unvisited(s) == s.discovered /\ ~s.visited /\ s.id # probe.locationId
        nearest == Nearest(probe.position, syss, Unvisited, Infinity)
    IN
    IF nearest > 0 /\ probe.inventory.Plutonium >= FuelNeeded(Dist(syss[nearest].position, probe.position))
    THEN TravelTo(syss[nearest].id, "Focus Exploring: visiting")
    ELSE IF nearest > 0 /\ currentSystem # << >> /\ currentSystem[1].resourceYield.Plutonium > 0
    THEN Decision("mine_plutonium", "Focus Exploring: refueling")
    ELSE Decision("scan", "scanning for new systems")

processFocusScience(probe, syss, currentSystem, hasRelayAtCurrentSystem, hasRelayUnlock) ==
  IF currentSystem # << >> /\ currentSystem[1].scienceRemaining > 0
  THEN Decision("research", "extracting science")
  ELSE IF currentSystem # << >> /\ ~hasRelayAtCurrentSystem /\ hasRelayUnlock
            /\ probe.inventory.Metal >= RELAY_DEPLOY_COST_METAL
  THEN Decision("deploy_relay", "deploying relay")
  ELSE
    LET Scientific(s) == IsSystem(s) /\ s.discovered /\ s.id # probe.locationId /\ s.scienceRemaining > 5
        nearest == Nearest(probe.position, syss, Scientific, Infinity)
    IN
    IF nearest > 0 /\ probe.inventory.Plutonium >= FuelNeeded(Dist(syss[nearest].position, probe.position))
    THEN TravelTo(syss[nearest].id, "Focus Science: traveling")
    ELSE IF nearest > 0 /\ currentSystem # << >> /\ currentSystem[1].resourceYield.Plutonium > 0
    THEN Decision("mine_plutonium", "Focus Science: refueling")
    ELSE IF currentSystem # << >> THEN processDefaultBehavior(probe, currentSystem, "undefined")
    ELSE << >>

\* a probe that never waits
NeverCooling(lastReplicationTime) == FALSE

\* lastReplicationTime && now - lastReplicationTime < REPLICATION_COOLDOWN
CoolingDown(lastReplicationTime) ==
  lastReplicationTime # Never /\ lastReplicationTime < REPLICATION_COOLDOWN

processFocusReplication(probe, syss, currentSystem, lastReplicationTime) ==
  IF HasBareEntry(syss) THEN Throws
  ELSE
    LET Candidate(s) == s.discovered /\ s.id # probe.locationId
                          /\ s.resourceYield.Metal >= REPLICATION_METAL
                          /\ s.resourceYield.Plutonium >= REPLICATION_PLUTONIUM
        nearest == Nearest(probe.position, syss, Candidate, Infinity)
        fuelNeeded == IF nearest > 0 THEN FuelNeeded(Dist(syss[nearest].position, probe.position)) ELSE 0
        postRepPlutonium == probe.inventory.Plutonium - REPLICATION_PLUTONIUM
    IN
    IF CoolingDown(lastReplicationTime)
    THEN Decision("idle", "waiting for cooldown")
    ELSE IF currentSystem # << >> /\ probe.inventory.Metal >= REPLICATION_METAL
              /\ probe.inventory.Plutonium >= REPLICATION_PLUTONIUM
    THEN (IF nearest > 0 /\ postRepPlutonium < fuelNeeded /\ currentSystem[1].resourceYield.Plutonium > 0
          THEN Decision("mine_plutonium", "mining Plutonium to ensure post-replication travel")
          ELSE Decision("replicate", "replicating at current system"))
    ELSE IF currentSystem # << >> /\ probe.inventory.Metal < REPLICATION_METAL
              /\ currentSystem[1].resourceYield.Metal > 0
    THEN Decision("mine_metal", "mining Metal for replication")
    ELSE IF currentSystem # << >> /\ probe.inventory.Plutonium < REPLICATION_PLUTONIUM
              /\ currentSystem[1].resourceYield.Plutonium > 0
    THEN Decision("mine_plutonium", "mining Plutonium for replication")
    ELSE IF nearest > 0 /\ probe.inventory.Plutonium >= fuelNeeded
    THEN TravelTo(syss[nearest].id, "Focus Replication: traveling")
    ELSE IF nearest > 0 /\ currentSystem # << >> /\ currentSystem[1].resourceYield.Plutonium > 0
    THEN Decision("mine_plutonium", "refueling for travel to resource system")
    ELSE Decision("idle", "no viable replication or travel targets")

processBehaviorMode(probe, syss, relaySystems, hasRelayUnlock, lastReplicationTime, previousState) ==
  LET idx == FindIndex(syss, probe.locationId)
      currentSystem == IF idx > 0 THEN << syss[idx] >> ELSE << >>
      hasRelayAtCurrentSystem ==
        idx > 0 /\ syss[idx].id \in relaySystems
  IN
  CASE probe.aiBehavior = "FocusMining" -> processFocusMining(probe, syss, currentSystem)
    [] probe.aiBehavior = "FocusExploring" -> processFocusExploring(probe, syss, currentSystem)
    [] probe.aiBehavior = "FocusScience" ->
         processFocusScience(probe, syss, currentSystem, hasRelayAtCurrentSystem, hasRelayUnlock)
    [] probe.aiBehavior = "FocusReplication" ->
         processFocusReplication(probe, syss, currentSystem, lastReplicationTime)
    [] OTHER -> processDefaultBehavior(probe, currentSystem, previousState)

(***************************************************************************)
(* logic/autonomySystem.ts                                                 *)
(***************************************************************************)

AutonomyResult(probe, systemChanges) ==
  [ probe |-> probe, systemChanges |-> systemChanges, shouldReplicate |-> FALSE,
    threw |-> FALSE, decision |-> << >> ]

\* the decided action carried out without a look at the tank
ExecuteUnchecked(updatedProbe, syss, previousState, decision) ==
  IF decision.action = "travel" /\ FindIndex(syss, decision.targetSystemId) > 0
  THEN [updatedProbe EXCEPT
          !.state = "Traveling", !.targetSystemId = decision.targetSystemId, !.progress = 0,
          !.inventory.Plutonium =
             @ - FuelNeeded(Dist(syss[FindIndex(syss, decision.targetSystemId)].position,
                                 updatedProbe.position))]
  ELSE updatedProbe

\* "Execute other decisions": the probe after the decided action
ExecuteDecision(updatedProbe, syss, previousState, decision) ==
  LET action == decision.action
      targetIdx == FindIndex(syss, decision.targetSystemId)
      fuelNeeded == IF targetIdx > 0
                    THEN FuelNeeded(Dist(syss[targetIdx].position, updatedProbe.position))
                    ELSE 0
  IN
  CASE updatedProbe.aiBehavior = "FocusReplication" /\ action = "replicate" ->
         [updatedProbe EXCEPT !.state = "Replicating", !.progress = 0, !.lastReplicationTime = 0]
    [] action = "mine_metal" ->
         [updatedProbe EXCEPT
            !.miningBatchProgress = IF previousState = "MiningPlutonium" THEN 0 ELSE @,
            !.state = "MiningMetal", !.progress = 0, !.miningBuffer = 0]
    [] action = "mine_plutonium" ->
         [updatedProbe EXCEPT
            !.miningBatchProgress = IF previousState = "MiningMetal" THEN 0 ELSE @,
            !.state = "MiningPlutonium", !.progress = 0, !.miningBuffer = 0]
    [] action = "travel" /\ decision.targetSystemId # Null /\ targetIdx > 0
         /\ updatedProbe.inventory.Plutonium >= fuelNeeded ->
         [updatedProbe EXCEPT
            !.state = "Traveling", !.targetSystemId = decision.targetSystemId,
            !.progress = 0, !.inventory.Plutonium = @ - fuelNeeded]
    [] action = "scan" -> [updatedProbe EXCEPT !.state = "Scanning", !.progress = 0]
    [] action = "research" -> [updatedProbe EXCEPT !.state = "Researching", !.progress = 0]
    [] OTHER -> updatedProbe

\* Priority 3: what becomes of the behaviour mode's decision
\* aiDecisionLog.slice(-10) when the log holds more than 10
LastTen(log) == IF Len(log) > 10 THEN SubSeq(log, Len(log) - 9, Len(log)) ELSE log

\* "if (updatedProbe.aiDecisionLog) push(decision.reason)"; aiDecisionLog is
\* << >> when the field is undefined and << log >> otherwise
Logged(updatedProbe, decision) ==
  IF updatedProbe.aiDecisionLog = << >> THEN updatedProbe
  ELSE [updatedProbe EXCEPT !.aiDecisionLog = << LastTen(Append(@[1], decision.reason)) >>]

ApplyDecision(updatedProbe, syss, systemChanges, previousState, decision) ==
  IF decision = << >> THEN AutonomyResult(updatedProbe, systemChanges)
  ELSE IF decision[1].threw THEN [ AutonomyResult(updatedProbe, systemChanges) EXCEPT !.threw = TRUE ]
  ELSE [ AutonomyResult(ExecuteDecision(Logged(updatedProbe, decision[1]), syss, previousState, decision[1]),
                        systemChanges) EXCEPT
           !.shouldReplicate = updatedProbe.aiBehavior = "FocusReplication"
                                 /\ decision[1].action = "replicate",
           !.decision = decision ]

\* the ladder without its second rung
StraightToMode(updatedProbe, syss, systemChanges, previousState, relaySystems, hasRelayUnlock) ==
  ApplyDecision(updatedProbe, syss, systemChanges, previousState,
                processBehaviorMode(updatedProbe, syss, relaySystems, hasRelayUnlock,
                                    updatedProbe.lastReplicationTime, previousState))

\* Priorities 2 and 3 for the probe as the interruption left it
Prioritise(updatedProbe, syss, systemChanges, previousState, relaySystems, hasRelayUnlock) ==
  IF updatedProbe.locationId # Null /\ updatedProbe.lastScannedSystemId # updatedProbe.locationId
  THEN AutonomyResult([updatedProbe EXCEPT !.state = "Scanning", !.progress = 0], systemChanges)
  ELSE ApplyDecision(updatedProbe, syss, systemChanges, previousState,
                     processBehaviorMode(updatedProbe, syss, relaySystems, hasRelayUnlock,
                                         updatedProbe.lastReplicationTime, previousState))

\* Priority 1: instant analysis upon arrival
ArrivalAnalysis(syss, idx) ==
  IF idx > 0 /\ ~syss[idx].analyzed
  THEN << [systemId |-> syss[idx].id, changes |-> [analyzed |-> TRUE]] >>
  ELSE << >>

processAutonomousProbe(probe, syss, colonizedSystemIds, relaySystems, hasRelayUnlock) ==
  IF probe.stats.autonomyLevel = 0 \/ ~probe.isAutonomyEnabled THEN AutonomyResult(probe, << >>)
  ELSE IF probe.state \in {"Traveling", "Replicating", "Exploring"} THEN AutonomyResult(probe, << >>)
  ELSE Prioritise(IF probe.state \in {"MiningMetal", "MiningPlutonium", "Scanning", "Researching"}
                  THEN [probe EXCEPT !.state = "Idle", !.progress = 0, !.miningBuffer = 0]
                  ELSE probe,
                  syss, ArrivalAnalysis(syss, FindIndex(syss, probe.locationId)),
                  probe.state, relaySystems, hasRelayUnlock)

(***************************************************************************)
(* App.tsx: the tick                                                       *)
(***************************************************************************)

\* "now - field" for a field holding the time elapsed up to the previous tick
Elapse(field, delta, cap) == IF field = Never THEN Never ELSE Min(cap, field + delta)

AtNow(probe, delta) ==
  [probe EXCEPT !.lastReplicationTime = Elapse(@, delta, REPLICATION_COOLDOWN),
                !.lastDiversionCheck = Elapse(@, delta, 1001),
                !.lastSafetyCheck = Elapse(@, delta, 1001)]

\* autonomyResult.systemChanges.forEach: findIndex by id, then spread
RECURSIVE ApplyChanges(_, _)
ApplyChanges(syss, changes) ==
  IF changes = << >> THEN syss
  ELSE LET idx == FindIndex(syss, Head(changes).systemId) IN
       ApplyChanges(IF idx > 0 THEN [syss EXCEPT ![idx] = Merge(@, Head(changes).changes)] ELSE syss,
                    Tail(changes))

ApplyYield(syss, yieldUpdate) ==
  IF yieldUpdate = << >> THEN syss
  ELSE [syss EXCEPT ![yieldUpdate[1].index].resourceYield[yieldUpdate[1].resourceType] = yieldUpdate[1].newYield]

\* the blueprint literal of the "Handle replication initiation" block
AutoBlueprint(probe) ==
  [ id |-> "auto-bp", name |-> probe.name, stats |-> probe.stats,
    cost |-> [Metal |-> REPLICATION_METAL, Plutonium |-> REPLICATION_PLUTONIUM, time |-> REPLICATION_TIME],
    isCustom |-> TRUE, initialInventory |-> << >> ]

TickStartSystems(prevSystems, newSystems) == prevSystems

\* the systems array a state processor is given for the probe being stepped
SystemsSeen(prevSystems, newSystems) == newSystems

\* the AUTONOMOUS PROBE LOGIC block's call
RunAutonomy(acc, probe, relaySystems, hasRelayUnlock) ==
  IF probe.stats.autonomyLevel > 0 /\ probe.isAutonomyEnabled
       /\ probe.state # "MiningMetal" /\ probe.state # "MiningPlutonium"
  THEN processAutonomousProbe(probe, acc.systems, acc.colonized, relaySystems, hasRelayUnlock)
  ELSE AutonomyResult(probe, << >>)

\* "Handle replication initiation"
CommitReplicate(auto) ==
  IF auto.shouldReplicate
  THEN [auto.probe EXCEPT
          !.state = "Replicating", !.progress = 0,
          !.pendingBlueprint = << AutoBlueprint(auto.probe) >>,
          !.inventory.Metal = @ - REPLICATION_METAL,
          !.inventory.Plutonium = @ - REPLICATION_PLUTONIUM]
  ELSE auto.probe

\* the STATE PROCESSING chain
StateResult(auto, p1, seen, sectors, delta, outcome, stamp, newId) ==
  CASE auto.threw -> NoResult(p1)
    [] p1.state = "Traveling" /\ p1.targetSystemId # Null /\ p1.locationId # Null ->
         processTravelingProbe(p1, seen, delta)
    [] p1.state = "Exploring" /\ p1.heading # NoHeading ->
         processExploringProbe(p1, seen, sectors, delta, outcome, stamp)
    [] p1.state \in {"MiningMetal", "MiningPlutonium"} -> processMiningProbe(p1, seen, delta)
    [] p1.state = "Replicating" -> processReplicatingProbe(p1, delta, newId)
    [] p1.state = "Scanning" -> processScanningProbe(p1, seen, sectors, delta, outcome, stamp)
    [] p1.state = "Researching" -> processResearchingProbe(p1, seen, delta)
    [] OTHER -> NoResult(p1)

\* a completion that records nothing
NotRecorded(colonized, probe, newProbes) == colonized

\* if (updatedProbe.locationId) colonizedSystemIds.add(updatedProbe.locationId)
Colonize(colonized, probe, newProbes) ==
  colonized \cup (IF newProbes # << >> /\ probe.locationId # Null THEN {probe.locationId} ELSE {})

\* the working copy after the results of one probe are applied
Collect(acc, auto, p1, systems1, res) ==
  [ systems |-> ApplyYield(ApplyUpdates(systems1, res.systemUpdates), res.systemYieldUpdate)
                  \o (IF res.sectorGenerated THEN res.newSystems ELSE << >>),
    sectors |-> acc.sectors,
    colonized |-> Colonize(acc.colonized \cup (IF auto.shouldReplicate THEN {p1.locationId} ELSE {}),
                           p1, res.newProbes),
    scienceDeltaTotal |-> acc.scienceDeltaTotal + res.scienceDelta,
    finalProbes |-> Append(acc.finalProbes, res.probe),
    createdProbes |-> acc.createdProbes \o res.newProbes,
    threw |-> acc.threw \/ auto.threw \/ res.threw,
    steps |-> acc.steps
                \o (IF auto.shouldReplicate
                    THEN << [kind |-> "replicate", probe |-> p1.id, system |-> p1.locationId,
                             colonizedBefore |-> p1.locationId \in acc.colonized] >>
                    ELSE << >>)
                \o [ i \in 1..Len(res.obs) |->
                       IF res.obs[i].kind = "spawn"
                       THEN Merge(res.obs[i],
                                  [probe |-> p1.id,
                                   colonized |-> Colonize(acc.colonized, p1, res.newProbes)])
                       ELSE Merge(res.obs[i], [probe |-> p1.id]) ] ]

ProcessState(acc, auto, p1, systems1, prevSystems, delta, outcome, newId) ==
  Collect(acc, auto, p1, systems1,
          StateResult(auto, p1, SystemsSeen(prevSystems, systems1), acc.sectors, delta, outcome,
                      Len(prevSystems), newId))

AfterAutonomy(acc, auto, prevSystems, delta, outcome, newId) ==
  ProcessState(acc, auto, CommitReplicate(auto), ApplyChanges(acc.systems, auto.systemChanges),
               prevSystems, delta, outcome, newId)

\* the body of prev.probes.forEach for one probe; acc is the tick's working copy
StepProbe(acc, prevProbe, prevSystems, delta, outcome, newId, relaySystems, hasRelayUnlock) ==
  AfterAutonomy(acc, RunAutonomy(acc, AtNow(prevProbe, delta), relaySystems, hasRelayUnlock),
                prevSystems, delta, outcome, newId)

\* ids for replicated probes, `probe-${Date.now()}-${Math.floor(Math.random() * 1000)}`:
\* the pool stands for the ids the clock and the draw can give
MaxProbes == 4

ProbeIds == [ i \in 1..(MaxProbes + 1) |-> "probe-" \o ToString(i - 1) ]

FreshId(used) ==
  ProbeIds[CHOOSE i \in 1..Len(ProbeIds) :
             /\ ProbeIds[i] \notin used \/ i = Len(ProbeIds)
             /\ \A j \in 1..(i - 1) : ProbeIds[j] \in used]

IdsOf(ps) == { ps[i].id : i \in 1..Len(ps) }

RelaySystems == { relays[i].systemId : i \in 1..Len(relays) }

TickStart ==
  [ systems |-> systems,
    sectors |-> generatedSectors,
    colonized |-> { probes[i].originSystemId : i \in 1..Len(probes) } \ {Null},
    scienceDeltaTotal |-> 0,
    finalProbes |-> << >>,
    createdProbes |-> << >>,
    threw |-> FALSE,
    steps |-> << >> ]

\* newId of a completing replication: within one tick Date.now() is the same,
\* and sameDraw tells whether Math.random() repeats the draw of the probe
\* created before it in this tick
DrawId(created, used, sameDraw) ==
  IF sameDraw /\ created # << >> THEN created[Len(created)].id ELSE FreshId(used)

\* prev.probes.forEach; an exception leaves the loop
RECURSIVE TickFold(_, _, _, _, _)
TickFold(acc, i, delta, outcome, sameDraw) ==
  IF i > Len(probes) \/ acc.threw THEN acc
  ELSE TickFold(StepProbe(acc, probes[i], systems, delta, outcome,
                          DrawId(acc.createdProbes,
                                 IdsOf(probes) \cup IdsOf(acc.createdProbes)
                                   \cup { pendingNames[k] : k \in 1..Len(pendingNames) },
                                 sameDraw),
                          RelaySystems, Includes(purchasedUnlocks, "quantum_relay_network")),
                i + 1, delta, outcome, sameDraw)

\* result.newProbes.forEach: generateProbeName is called for every new probe
\* named "Constructing..."
NamesRequested(createdProbes) ==
  [ k \in 1..Len(SelectSeq(createdProbes, LAMBDA p : p.name = "Constructing...")) |->
      SelectSeq(createdProbes, LAMBDA p : p.name = "Constructing...")[k].id ]

\* the new probes ahead of the old
CreatedFirst(finalProbes, createdProbes) == createdProbes \o finalProbes

\* probes: [...finalProbes, ...createdProbes]
ProbeList(finalProbes, createdProbes) == finalProbes \o createdProbes

TickCommit(end, delta) ==
  /\ ~end.threw
  /\ Len(end.finalProbes) + Len(end.createdProbes) <= MaxProbes
  /\ probes' = ProbeList(end.finalProbes, end.createdProbes)
  /\ systems' = end.systems
  /\ generatedSectors' = end.sectors
  /\ science' = science + end.scienceDeltaTotal
  /\ hist' = [op |-> "tick", delta |-> delta, steps |-> end.steps]
  /\ pendingNames' = pendingNames \o NamesRequested(end.createdProbes)
  /\ UNCHANGED <<relays, purchasedUnlocks, unlockedAIBehaviors, selectedProbeId, rendered, undefinedFields,
                 maxStatLevelOverrides>>

\* one frame of the game loop, with the draws of Math.random() as inputs
TickWith(delta, outcome, sameDraw) == TickCommit(TickFold(TickStart, 1, delta, outcome, sameDraw), delta)

\* a frame in which no two draws coincide
Tick(delta, outcome) == TickWith(delta, outcome, FALSE)

(***************************************************************************)
(* Commands                                                                *)
(***************************************************************************)

ProbeIndexFrom(ps, id, i) ==
  LET found == { k \in i..Len(ps) : ps[k].id = id } IN
  IF found = {} THEN 0 ELSE CHOOSE k \in found : \A m \in found : k <= m

\* prev.probes.find((p) => p.id === prev.selectedProbeId): its index, 0 if none
SelectedIndex == ProbeIndexFrom(probes, selectedProbeId, 1)

\* prev.probes.map((p) => (p.id === id ? f(p) : p))
MapProbes(id, f(_)) == [ k \in 1..Len(probes) |-> IF probes[k].id = id THEN f(probes[k]) ELSE probes[k] ]

Command(name) == [op |-> name, delta |-> 0, steps |-> << >>]

handleSelectProbe(id) ==
  /\ selectedProbeId' = id
  /\ hist' = Command("selectProbe")
  /\ UNCHANGED <<undefinedFields, pendingNames, maxStatLevelOverrides, probes, systems, generatedSectors, science, relays, purchasedUnlocks,
                 unlockedAIBehaviors, rendered>>

handleMine(resource) ==
  LET i == SelectedIndex
      s == IF i > 0 THEN FindIndex(systems, probes[i].locationId) ELSE 0
  IN
  /\ i > 0
  /\ probes[i].locationId # Null
  /\ s > 0
  /\ systems[s].resourceYield[resource] > 0
  /\ LET Start(p) == [p EXCEPT
                         !.state = IF resource = "Metal" THEN "MiningMetal" ELSE "MiningPlutonium",
                         !.progress = 0, !.miningBuffer = 0]
     IN probes' = MapProbes(probes[i].id, Start)
  /\ hist' = Command("mine")
  /\ UNCHANGED <<undefinedFields, pendingNames, maxStatLevelOverrides, systems, generatedSectors, science, relays, purchasedUnlocks,
                 unlockedAIBehaviors, selectedProbeId, rendered>>

handleStopOperation ==
  LET i == SelectedIndex IN
  /\ i > 0
  /\ probes[i].state \in {"MiningMetal", "MiningPlutonium", "Replicating"}
  /\ LET probe == probes[i]
         halted == [probe EXCEPT !.state = "Idle", !.progress = 0, !.miningBuffer = 0]
         updatedProbe ==
           IF probe.state = "Replicating" /\ probe.pendingBlueprint # << >>
           THEN [halted EXCEPT
                   !.inventory = [Metal |-> probe.inventory.Metal + probe.pendingBlueprint[1].cost.Metal,
                                  Plutonium |-> probe.inventory.Plutonium
                                                  + probe.pendingBlueprint[1].cost.Plutonium],
                   !.pendingBlueprint = << >>]
           ELSE halted
         Replace(p) == updatedProbe
     IN probes' = MapProbes(probe.id, Replace)
  /\ hist' = Command("stop")
  /\ UNCHANGED <<undefinedFields, pendingNames, maxStatLevelOverrides, systems, generatedSectors, science, relays, purchasedUnlocks,
                 unlockedAIBehaviors, selectedProbeId, rendered>>

\* what a command that only rewrites probes leaves alone
NotProbes == <<undefinedFields, pendingNames, maxStatLevelOverrides, systems, generatedSectors, science, relays, purchasedUnlocks,
               unlockedAIBehaviors, selectedProbeId, rendered>>

handleLaunch(targetSystemId) ==
  LET i == SelectedIndex
      startIdx == IF i > 0 THEN FindIndex(systems, probes[i].locationId) ELSE 0
      targetIdx == FindIndex(systems, targetSystemId)
  IN
  /\ i > 0 /\ startIdx > 0 /\ targetIdx > 0
  /\ LET probe == probes[i]
         fuelNeeded == FuelNeeded(Dist(systems[targetIdx].position, systems[startIdx].position))
         hasFuel == probe.inventory.Plutonium >= fuelNeeded
         updatedProbe == [probe EXCEPT
                            !.state = "Traveling",
                            !.targetSystemId = systems[targetIdx].id,
                            !.inventory.Plutonium = IF hasFuel THEN @ - fuelNeeded ELSE @,
                            !.progress = 0, !.miningBuffer = 0,
                            !.isSolarSailing = ~hasFuel]
         Replace(p) == updatedProbe
     IN probes' = MapProbes(probe.id, Replace)
  /\ hist' = Command("launch")
  /\ UNCHANGED NotProbes

handleDeepSpaceLaunch(heading) ==
  LET i == SelectedIndex IN
  /\ i > 0
  /\ probes[i].state \in {"Idle", "Exploring"}
  /\ LET probe == probes[i]
         pushDistance == 10
         newPos == [x |-> probe.position.x + CosDeg(heading) * pushDistance, y |-> probe.position.y]
         Push(p) == [p EXCEPT
                       !.state = "Exploring", !.heading = heading, !.locationId = Null,
                       !.targetSystemId = Null, !.position = newPos,
                       !.lastSafetyCheck = 0, !.lastDiversionCheck = 0,
                       !.isSolarSailing = probe.inventory.Plutonium <= 0]
         currentHeading == IF probe.heading = NoHeading THEN 0 ELSE probe.heading
         cost == TurnCost(AngleDiff(heading, currentHeading))
         Turn(p) == [p EXCEPT
                       !.heading = heading,
                       !.inventory.Plutonium = Max(0, probe.inventory.Plutonium - cost),
                       !.isSolarSailing = IF probe.inventory.Plutonium - cost < 0 THEN TRUE
                                          ELSE probe.isSolarSailing]
     IN probes' = IF probe.state = "Idle" THEN MapProbes(probe.id, Push) ELSE MapProbes(probe.id, Turn)
  /\ hist' = Command("deepSpaceLaunch")
  /\ UNCHANGED NotProbes

handleScan ==
  LET i == SelectedIndex IN
  /\ i > 0
  /\ probes[i].state = "Idle"
  /\ LET Start(p) == [p EXCEPT !.state = "Scanning", !.progress = 0]
     IN probes' = MapProbes(probes[i].id, Start)
  /\ hist' = Command("scan")
  /\ UNCHANGED NotProbes

\* a rejected order only writes a log line
handleReplicate(blueprint) ==
  LET i == SelectedIndex IN
  /\ i > 0
  /\ probes[i].inventory.Metal >= blueprint.cost.Metal
  /\ probes[i].inventory.Plutonium >= blueprint.cost.Plutonium
  /\ LET Start(p) == [p EXCEPT
                        !.state = "Replicating", !.progress = 0, !.miningBuffer = 0,
                        !.inventory = [Metal |-> p.inventory.Metal - blueprint.cost.Metal,
                                       Plutonium |-> p.inventory.Plutonium - blueprint.cost.Plutonium],
                        !.pendingBlueprint = << blueprint >>]
     IN probes' = MapProbes(probes[i].id, Start)
  /\ hist' = Command("replicate")
  /\ UNCHANGED NotProbes

Stats(miningSpeed, flightSpeed, replicationSpeed, scanRange, scanSpeed, autonomyLevel) ==
  [ miningSpeed |-> miningSpeed, flightSpeed |-> flightSpeed, replicationSpeed |-> replicationSpeed,
    scanRange |-> scanRange, scanSpeed |-> scanSpeed, autonomyLevel |-> autonomyLevel ]

\* a toggle that interrupts the operation and leaves its progress
ToggleKeepingProgress(probeId) ==
  LET i == ProbeIndexFrom(probes, probeId, 1) IN
  /\ i > 0
  /\ LET willDisableAI == probes[i].isAutonomyEnabled
         Toggle(p) ==
           IF willDisableAI /\ p.state \in {"MiningMetal", "MiningPlutonium", "Scanning", "Researching"}
           THEN [p EXCEPT !.isAutonomyEnabled = ~@, !.state = "Idle"]
           ELSE [p EXCEPT !.isAutonomyEnabled = ~@]
     IN probes' = MapProbes(probeId, Toggle)
  /\ hist' = Command("toggleAutonomy")
  /\ UNCHANGED NotProbes

handleToggleAutonomy(probeId) ==
  LET i == ProbeIndexFrom(probes, probeId, 1) IN
  /\ i > 0
  /\ LET willDisableAI == probes[i].isAutonomyEnabled
         Toggle(p) ==
           IF willDisableAI /\ p.state \in {"MiningMetal", "MiningPlutonium", "Scanning", "Researching"}
           THEN [p EXCEPT !.isAutonomyEnabled = ~@, !.state = "Idle", !.progress = 0, !.miningBuffer = 0]
           ELSE [p EXCEPT !.isAutonomyEnabled = ~@]
     IN probes' = MapProbes(probeId, Toggle)
  /\ hist' = Command("toggleAutonomy")
  /\ UNCHANGED NotProbes

MarkI == Stats(1, 1, 1, 300, 1, 0)

BpMark1 ==
  [ id |-> "bp-mark1", name |-> "Mark I", stats |-> MarkI,
    cost |-> [Metal |-> 50, Plutonium |-> 20, time |-> 60000],
    isCustom |-> FALSE, initialInventory |-> << >> ]

BpAdmin ==
  [ id |-> "bp-admin", name |-> "Admin Super Probe", stats |-> Stats(1, 4, 5, 1000, 50, 2),
    cost |-> [Metal |-> 10, Plutonium |-> 10, time |-> 1000],
    isCustom |-> FALSE, initialInventory |-> << [Metal |-> 10000, Plutonium |-> 10000] >> ]

(***************************************************************************)
(* Worlds: saved games as handleImportSave loads them                      *)
(***************************************************************************)

\* an idle probe docked at a system it has scanned, as createInitialState
\* builds probe-0
DockedProbe(id, system, stats, inventory) ==
  [ id |-> id, name |-> id, state |-> "Idle",
    locationId |-> system.id, originSystemId |-> system.id, lastScannedSystemId |-> system.id,
    position |-> system.position, targetSystemId |-> Null, heading |-> NoHeading,
    inventory |-> inventory, stats |-> stats, progress |-> 0, miningBuffer |-> 0,
    isSolarSailing |-> FALSE, isAutonomyEnabled |-> TRUE, aiBehavior |-> "None", aiModules |-> {},
    miningBatchProgress |-> 0, lastReplicationTime |-> Never, lastDiversionCheck |-> 0,
    lastSafetyCheck |-> Never, pendingBlueprint |-> << >>, aiDecisionLog |-> << >> ]

\* a system of the row, as createInitialState builds its three
StarSystem(id, x, known, abundance, yieldMetal, yieldPlutonium, scienceRemaining) ==
  [ id |-> id, position |-> [x |-> x, y |-> RowY],
    visited |-> known, analyzed |-> known, discovered |-> known,
    resources |-> [Metal |-> abundance, Plutonium |-> abundance],
    resourceYield |-> [Metal |-> yieldMetal, Plutonium |-> yieldPlutonium],
    scienceRemaining |-> scienceRemaining, scienceTotal |-> scienceRemaining ]

Snapshot ==
  [ probes |-> probes, systems |-> systems, relays |-> relays, purchasedUnlocks |-> purchasedUnlocks,
    unlockedAIBehaviors |-> unlockedAIBehaviors, selectedProbeId |-> selectedProbeId,
    undefinedFields |-> undefinedFields ]

NoSnapshot == [ probes |-> << >> ]

World(ps, syss, sectors) ==
  /\ probes = ps
  /\ systems = syss
  /\ generatedSectors = sectors
  /\ science = 0
  /\ relays = << >>
  /\ purchasedUnlocks = << >>
  /\ unlockedAIBehaviors = {}
  /\ selectedProbeId = ps[1].id
  /\ rendered = NoSnapshot
  /\ undefinedFields = {}
  /\ pendingNames = << >>
  /\ maxStatLevelOverrides = NoOverrides
  /\ hist = Command("load")

(***************************************************************************)
(* Mining: two manually commanded probes at one nearly depleted system     *)
(***************************************************************************)

MineSite == StarSystem(1, 1500, TRUE, 50, 3, 2, 0)

MineDeltas == {250, 1000, 2500}

InitMine ==
  World(<< DockedProbe("probe-0", MineSite, Stats(1, 1, 1, 200, 1, 0), [Metal |-> 0, Plutonium |-> 0]),
           DockedProbe("probe-1", MineSite, Stats(2, 1, 1, 200, 1, 0), [Metal |-> 0, Plutonium |-> 0]) >>,
        << MineSite >>,
        { SectorKey(MineSite.position) })

NextMine ==
  \/ \E delta \in MineDeltas : Tick(delta, << >>)
  \/ \E id \in {"probe-0", "probe-1"} : handleSelectProbe(id)
  \/ \E resource \in {"Metal", "Plutonium"} : handleMine(resource)
  \/ handleStopOperation

SpecMine == InitMine /\ [][NextMine]_vars

\* the mining steps of the last tick, in processing order
MineSteps(h) == SelectSeq(h.steps, LAMBDA o : o.kind = "mine")

RECURSIVE SumGained(_, _, _)
SumGained(steps, index, resourceType) ==
  IF steps = << >> THEN 0
  ELSE (IF Head(steps).index = index /\ Head(steps).resourceType = resourceType
        THEN Head(steps).gained ELSE 0)
       + SumGained(Tail(steps), index, resourceType)

\* C2: every mining step of a tick adds min(floor(miningBuffer), yield before
\* the step) to the probe's inventory, a non-negative integer; the system's
\* yield of the resource decreases by exactly what was added, and no yield is
\* negative afterwards.
C2_MiningTransfer ==
  [][ hist'.op = "tick" =>
        /\ \A k \in 1..Len(MineSteps(hist')) :
             LET o == MineSteps(hist')[k]
                 i == ProbeIndexFrom(probes, o.probe, 1)
                 added == probes'[i].inventory[o.resourceType] - probes[i].inventory[o.resourceType]
             IN /\ added = Min(o.buffer \div BufferUnit, o.available)
                /\ added \in Nat
                /\ o.buffer = probes[i].miningBuffer
                                + MiningAmount(systems[o.index].resources[o.resourceType],
                                               probes[i].stats.miningSpeed, hist'.delta)
        /\ \A index \in 1..Len(systems) : \A resourceType \in {"Metal", "Plutonium"} :
             /\ systems[index].resourceYield[resourceType] - systems'[index].resourceYield[resourceType]
                  = SumGained(MineSteps(hist'), index, resourceType)
             /\ systems'[index].resourceYield[resourceType] >= 0 ]_vars

\* a mining step whose buffer held more whole units than the system had left
C2_Witness ==
  /\ hist.op = "tick"
  /\ \E k \in 1..Len(MineSteps(hist)) :
       LET o == MineSteps(hist)[k] IN
       /\ o.gained > 0
       /\ o.gained = o.available
       /\ o.buffer \div BufferUnit > o.available

\* what the probes mining resourceType at system index gained in the step
RECURSIVE GainedAt(_, _, _, _, _)
GainedAt(before, after, id, resourceType, i) ==
  IF i > Len(before) THEN 0
  ELSE (IF before[i].state = (IF resourceType = "Metal" THEN "MiningMetal" ELSE "MiningPlutonium")
           /\ before[i].locationId = id
        THEN after[i].inventory[resourceType] - before[i].inventory[resourceType]
        ELSE 0)
       + GainedAt(before, after, id, resourceType, i + 1)

\* C3: probes mining the same resource at the same system in one tick together
\* take no more than the yield at the start of the tick, and each later one is
\* clamped against the yield the earlier ones left.
C3_SequentialClamp ==
  [][ hist'.op = "tick" =>
        /\ \A index \in 1..Len(systems) : \A resourceType \in {"Metal", "Plutonium"} :
             GainedAt(probes, probes', systems[index].id, resourceType, 1)
               <= systems[index].resourceYield[resourceType]
        /\ \A k \in 1..Len(MineSteps(hist')) : \A m \in (k + 1)..Len(MineSteps(hist')) :
             LET first == MineSteps(hist')[k]
                 second == MineSteps(hist')[m]
             IN first.index = second.index /\ first.resourceType = second.resourceType
                  => second.available <= first.available - first.gained ]_vars

\* two probes took from the same yield in one tick and the second was clamped
\* by what the first had left
C3_Witness ==
  /\ hist.op = "tick"
  /\ Len(MineSteps(hist)) = 2
  /\ LET first == MineSteps(hist)[1]
         second == MineSteps(hist)[2]
     IN /\ first.index = second.index
        /\ first.resourceType = second.resourceType
        /\ first.gained > 0
        /\ second.gained > 0
        /\ second.available = first.available - first.gained
        /\ second.buffer \div BufferUnit > second.available

(***************************************************************************)
(* Exploring: one manually commanded probe leaving its sector              *)
(***************************************************************************)

MinX == 1800
MaxX == 2300
MaxSystems == 4

\* the part of the row the exploration scenarios follow probes in
InRange(ps, syss, lo, hi) ==
  /\ Len(syss) <= MaxSystems
  /\ \A i \in 1..Len(ps) : ps[i].position.x >= lo /\ ps[i].position.x <= hi

ExploreHome == StarSystem(1, 1940, TRUE, 50, 1000, 500, 0)

ExploreDeltas == {10000, 20000}

InitExplore ==
  World(<< DockedProbe("probe-0", ExploreHome, Stats(1, 1, 3, 300, 1, 0), [Metal |-> 50, Plutonium |-> 60]) >>,
        << ExploreHome >>,
        { SectorKey(ExploreHome.position) })

NextExplore ==
  \/ \E delta \in ExploreDeltas : \E outcome \in GenOutcomes :
       Tick(delta, outcome) /\ InRange(probes', systems', MinX, MaxX)
  \/ \E heading \in {0, 180} :
       handleDeepSpaceLaunch(heading) /\ InRange(probes', systems', MinX, MaxX)
  \/ handleScan

SpecExplore == InitExplore /\ [][NextExplore]_vars

(***************************************************************************)
(* Replicating under way: a probe ordered to replicate wherever it is      *)
(***************************************************************************)

SpawnMinX == 1900
SpawnMaxX == 2050

InitSpawn ==
  World(<< DockedProbe("probe-0", ExploreHome, Stats(1, 1, 3, 300, 1, 0), [Metal |-> 50, Plutonium |-> 60]) >>,
        << ExploreHome >>,
        { SectorKey(ExploreHome.position), SectorKey([x |-> SpawnMaxX, y |-> RowY]) })

NextSpawn ==
  \/ \E delta \in ExploreDeltas : Tick(delta, << >>) /\ InRange(probes', systems', SpawnMinX, SpawnMaxX)
  \/ \E heading \in {0, 180} :
       handleDeepSpaceLaunch(heading) /\ InRange(probes', systems', SpawnMinX, SpawnMaxX)
  \/ handleReplicate(BpMark1)
  \/ handleStopOperation

SpecSpawn == InitSpawn /\ [][NextSpawn]_vars

\* the sector keys the last step generated systems for
GeneratedKeys(h) ==
  { k \in UNION { { o.generated[j] : j \in 1..Len(o.generated) } :
                  o \in { h.steps[i] : i \in { n \in 1..Len(h.steps) : h.steps[n].kind \in {"explore", "scan"} } } } :
      TRUE }

\* C4: systems are generated at most once for a sector key: a tick never
\* generates for a key that the tick before it already generated for.
C4_GeneratedOnce ==
  [][ \A k \in GeneratedKeys(hist) : k \notin GeneratedKeys(hist') ]_vars

SystemFields ==
  {"id", "position", "visited", "analyzed", "discovered", "resources", "resourceYield",
   "scienceRemaining", "scienceTotal"}

\* C5: after a tick every entry of systems is an entry from before the tick
\* with its id and position, or a complete system generated in that tick; the
\* update requests add no entry and change no id or position.
C5_SystemsIdentity ==
  [][ hist'.op = "tick" =>
        /\ Len(systems') >= Len(systems)
        /\ \A j \in 1..Len(systems') :
             IF j <= Len(systems)
             THEN IsSystem(systems[j]) =>
                    /\ IsSystem(systems'[j])
                    /\ systems'[j].id = systems[j].id
                    /\ systems'[j].position = systems[j].position
             ELSE /\ DOMAIN systems'[j] = SystemFields
                  /\ SectorKey(systems'[j].position) \in GeneratedKeys(hist') ]_vars

\* C6: every probe is either docked (locationId set, no heading) or
\* free-flying (no locationId, heading set), and a Traveling probe holds its
\* departure system.
C6_DockedOrHeading ==
  \A i \in 1..Len(probes) :
    /\ \/ probes[i].locationId # Null /\ probes[i].heading = NoHeading
       \/ probes[i].locationId = Null /\ probes[i].heading # NoHeading
    /\ probes[i].state = "Traveling" => probes[i].locationId # Null

(***************************************************************************)
(* Autonomous replication: two FocusReplication probes of one system       *)
(***************************************************************************)

ReplSite == StarSystem(1, 1500, TRUE, 50, 0, 0, 0)

ReplDeltas == {5000, 10000}

FocusProbe(id, system, inventory) ==
  [ DockedProbe(id, system, Stats(1, 1, 1, 300, 1, 2), inventory) EXCEPT
      !.aiBehavior = "FocusReplication", !.aiModules = {"FocusReplication"} ]

InitRepl ==
  \E metal \in {500, 1000} : \E plutonium \in {300, 600} :
    World(<< FocusProbe("probe-0", ReplSite, [Metal |-> metal, Plutonium |-> plutonium]),
             FocusProbe("probe-1", ReplSite, [Metal |-> 500, Plutonium |-> 300]) >>,
          << ReplSite >>,
          { SectorKey(ReplSite.position) })

NextRepl ==
  \/ \E delta \in ReplDeltas : Tick(delta, << >>)
  \/ \E id \in IdsOf(probes) : handleSelectProbe(id)
  \/ \E id \in IdsOf(probes) : handleToggleAutonomy(id)
  \/ handleStopOperation

SpecRepl == InitRepl /\ [][NextRepl]_vars

ReplicateSteps(h) == SelectSeq(h.steps, LAMBDA o : o.kind = "replicate")

\* C7: in one tick at most one autonomous replicate is committed per system,
\* and none at a system that is already in the tick's colonized set.
C7_OneReplicatePerSystem ==
  hist.op = "tick" =>
    /\ \A k \in 1..Len(ReplicateSteps(hist)) : ~ReplicateSteps(hist)[k].colonizedBefore
    /\ \A k \in 1..Len(ReplicateSteps(hist)) : \A m \in (k + 1)..Len(ReplicateSteps(hist)) :
         ReplicateSteps(hist)[k].system # ReplicateSteps(hist)[m].system

(***************************************************************************)
(* processFocusReplication on its own: one docked probe, one other system  *)
(***************************************************************************)

FocusHome(yieldPlutonium) == StarSystem(1, 1500, TRUE, 50, 1000, yieldPlutonium, 0)

FocusOther(x, discovered, yieldMetal) ==
  [ StarSystem(2, x, FALSE, 50, yieldMetal, 800, 0) EXCEPT !.discovered = discovered ]

InitFocus ==
  \E metal \in {400, 500, 600} : \E plutonium \in {250, 300, 350, 520} :
  \E yieldPlutonium \in {0, 800} : \E x \in {2000, 2500} : \E discovered \in BOOLEAN :
  \E yieldMetal \in {100, 2000} : \E lastReplicationTime \in {Never, 5000, REPLICATION_COOLDOWN} :
    World(<< [ FocusProbe("probe-0", FocusHome(yieldPlutonium), [Metal |-> metal, Plutonium |-> plutonium])
                 EXCEPT !.lastReplicationTime = lastReplicationTime ] >>,
          << FocusHome(yieldPlutonium), FocusOther(x, discovered, yieldMetal) >>,
          { SectorKey(FocusHome(yieldPlutonium).position) })

\* the call processBehaviorMode makes for a FocusReplication probe
DecideFocus ==
  /\ hist.op = "load"
  /\ hist' = [ op |-> "decide", delta |-> 0,
               steps |-> processBehaviorMode(probes[1], systems, RelaySystems, FALSE,
                                             probes[1].lastReplicationTime, probes[1].state) ]
  /\ UNCHANGED <<undefinedFields, pendingNames, maxStatLevelOverrides, probes, systems, generatedSectors, science, relays, purchasedUnlocks,
                 unlockedAIBehaviors, selectedProbeId, rendered>>

SpecFocus == InitFocus /\ [][DecideFocus]_vars

\* the discovered systems elsewhere that hold 500 Metal and 300 Plutonium
Qualifying(probe) ==
  { i \in 1..Len(systems) :
      /\ systems[i].discovered /\ systems[i].id # probe.locationId
      /\ systems[i].resourceYield.Metal >= REPLICATION_METAL
      /\ systems[i].resourceYield.Plutonium >= REPLICATION_PLUTONIUM }

\* the probe meets the thresholds but replicating would leave less Plutonium
\* than the trip to the nearest qualifying system burns
ShortOfFuelAfterReplicating(probe) ==
  /\ probe.inventory.Metal >= REPLICATION_METAL
  /\ probe.inventory.Plutonium >= REPLICATION_PLUTONIUM
  /\ Qualifying(probe) # {}
  /\ \A i \in Qualifying(probe) :
       probe.inventory.Plutonium - REPLICATION_PLUTONIUM
         < FuelNeeded(Dist(systems[i].position, probe.position))

\* C8: processFocusReplication does not return replicate for a probe that
\* meets the thresholds while a qualifying system exists elsewhere and the
\* Plutonium left after replicating would not cover the trip to the nearest one.
C8_NoReplicateShortOfFuel ==
  hist.op = "decide" /\ ShortOfFuelAfterReplicating(probes[1])
    => hist.steps[1].action # "replicate"

(***************************************************************************)
(* Scanning: an autonomous and a manually commanded probe at one system    *)
(***************************************************************************)

ScanHome == StarSystem(1, 1500, TRUE, 50, 0, 0, 0)

ScanNeighbour == StarSystem(2, 1700, FALSE, 50, 1000, 500, 0)

ScanDeltas == {600, 1500, 3000}

InitScan ==
  World(<< [ DockedProbe("probe-0", ScanHome, Stats(1, 1, 1, 300, 1, 1), [Metal |-> 0, Plutonium |-> 0])
               EXCEPT !.lastScannedSystemId = Null ],
           DockedProbe("probe-1", ScanHome, Stats(1, 1, 1, 300, 1, 0), [Metal |-> 0, Plutonium |-> 0]) >>,
        << ScanHome, ScanNeighbour >>,
        { SectorKey(ScanHome.position) })

NextScan ==
  \/ \E delta \in ScanDeltas : Tick(delta, << >>)
  \/ \E id \in IdsOf(probes) : handleSelectProbe(id)
  \/ \E id \in IdsOf(probes) : handleToggleAutonomy(id)
  \/ handleScan

SpecScan == InitScan /\ [][NextScan]_vars

\* C9: a Scanning probe accumulates progress across ticks until the scan
\* completes: while it stays Scanning, every tick leaves it more progress
\* than it had.
C9_ScanAccumulates ==
  [][ hist'.op = "tick" =>
        \A i \in 1..Len(probes) :
          probes[i].state = "Scanning" /\ probes[i].stats.scanSpeed > 0
            /\ probes'[i].state = "Scanning"
            => probes'[i].progress > probes[i].progress ]_vars

(***************************************************************************)
(* Default mode: one autonomous probe mining a system with both resources  *)
(***************************************************************************)

DefaultSite == StarSystem(1, 1500, TRUE, 50, 60, 60, 0)

DefaultDeltas == {1500, 2500}

InitDefault ==
  World(<< DockedProbe("probe-0", DefaultSite, Stats(1, 1, 1, 300, 1, 1), [Metal |-> 0, Plutonium |-> 0]) >>,
        << DefaultSite >>,
        { SectorKey(DefaultSite.position) })

NextDefault ==
  \/ \E delta \in DefaultDeltas : Tick(delta, << >>)
  \/ handleSelectProbe("probe-0")

SpecDefault == InitDefault /\ [][NextDefault]_vars

\* C10: a Default-mode probe alternates Metal and Plutonium in batches of
\* BATCH_SIZE units while its system yields both.  The probe starts with
\* equal stocks, so its stocks never come to differ by two whole batches.
C10_BatchAlternation ==
  \A i \in 1..Len(probes) :
    LET s == FindIndex(systems, probes[i].locationId) IN
    s > 0 /\ systems[s].resourceYield.Metal > 0 /\ systems[s].resourceYield.Plutonium > 0
      => Abs(probes[i].inventory.Metal - probes[i].inventory.Plutonium) < 2 * BATCH_SIZE

(***************************************************************************)
(* Commands that validate on the rendered gameState and write to prev      *)
(***************************************************************************)

UPGRADE_COSTS ==
  [ miningSpeed |-> [Metal |-> 50, Plutonium |-> 5, increment |-> 1],
    flightSpeed |-> [Metal |-> 100, Plutonium |-> 20, increment |-> 1],
    autonomyLevel |-> [Metal |-> 500, Plutonium |-> 200, increment |-> 1] ]

MAX_STAT_LEVELS ==
  [ miningSpeed |-> 10, flightSpeed |-> 10, replicationSpeed |-> 5, scanRange |-> 1000,
    scanSpeed |-> 5, autonomyLevel |-> 2 ]

\* prev.maxStatLevelOverrides[statKey] ?? MAX_STAT_LEVELS[statKey]
MaxLevel(overrides, statKey) ==
  IF overrides[statKey] # NoOverride THEN overrides[statKey] ELSE MAX_STAT_LEVELS[statKey]

AI_MODULE_COSTS ==
  [ FocusMining |-> [Metal |-> 150, Plutonium |-> 0],
    FocusExploring |-> [Metal |-> 100, Plutonium |-> 50],
    FocusScience |-> [Metal |-> 200, Plutonium |-> 100] ]

\* validates and pays inside the updater, on prev; a rejected order only
\* writes a log line
handleUpgradeProbe(probeId, statKey) ==
  LET i == ProbeIndexFrom(probes, probeId, 1) IN
  /\ i > 0
  /\ probes[i].state = "Idle"
  /\ statKey \in DOMAIN UPGRADE_COSTS
  /\ probes[i].stats[statKey] < MaxLevel(maxStatLevelOverrides, statKey)
  /\ LET currentVal == probes[i].stats[statKey]
         metalCost == UPGRADE_COSTS[statKey].Metal * (currentVal + 1)
         plutoniumCost == UPGRADE_COSTS[statKey].Plutonium * (currentVal + 1)
         Upgrade(p) == [p EXCEPT
                          !.inventory = [Metal |-> p.inventory.Metal - metalCost,
                                         Plutonium |-> p.inventory.Plutonium - plutoniumCost],
                          !.stats[statKey] = currentVal + UPGRADE_COSTS[statKey].increment,
                          !.isAutonomyEnabled = IF statKey = "autonomyLevel" THEN TRUE ELSE @]
     IN /\ probes[i].inventory.Metal >= metalCost
        /\ probes[i].inventory.Plutonium >= plutoniumCost
        /\ probes' = MapProbes(probeId, Upgrade)
  /\ hist' = Command("upgrade")
  /\ UNCHANGED NotProbes

\* every check reads gameState, the state of the last render; the payment
\* is made in the updater, on prev
handleDeployRelay ==
  LET gameState == rendered
      g == ProbeIndexFrom(gameState.probes, gameState.selectedProbeId, 1)
  IN
  /\ g > 0
  /\ Includes(gameState.purchasedUnlocks, RELAY_NETWORK)
  /\ gameState.probes[g].state = "Idle"
  /\ gameState.probes[g].locationId # Null
  /\ FindIndex(gameState.systems, gameState.probes[g].locationId) > 0
  \* gameState.relays.find and [...prev.relays, relay] throw on undefined
  /\ "relays" \notin gameState.undefinedFields /\ "relays" \notin undefinedFields
  /\ \A r \in 1..Len(gameState.relays) :
       gameState.relays[r].systemId # gameState.probes[g].locationId
  /\ gameState.probes[g].inventory.Metal >= RELAY_DEPLOY_COST_METAL
  /\ LET system == gameState.systems[FindIndex(gameState.systems, gameState.probes[g].locationId)]
         Pay(p) == [p EXCEPT !.inventory.Metal = @ - RELAY_DEPLOY_COST_METAL]
     IN /\ probes' = MapProbes(gameState.probes[g].id, Pay)
        /\ relays' = Append(relays, [systemId |-> system.id, position |-> system.position])
  /\ hist' = Command("deployRelay")
  /\ UNCHANGED <<undefinedFields, pendingNames, maxStatLevelOverrides, systems, generatedSectors, science, purchasedUnlocks,
                 unlockedAIBehaviors, selectedProbeId, rendered>>

handleInstallAIModule(probeId, behavior) ==
  LET gameState == rendered
      g == ProbeIndexFrom(gameState.probes, probeId, 1)
  IN
  /\ g > 0
  /\ gameState.probes[g].stats.autonomyLevel >= 2
  /\ behavior \notin gameState.probes[g].aiModules
  /\ behavior \in gameState.unlockedAIBehaviors
  /\ behavior \in DOMAIN AI_MODULE_COSTS
  /\ gameState.probes[g].inventory.Metal >= AI_MODULE_COSTS[behavior].Metal
  /\ gameState.probes[g].inventory.Plutonium >= AI_MODULE_COSTS[behavior].Plutonium
  /\ LET cost == AI_MODULE_COSTS[behavior]
         Install(p) == [p EXCEPT
                          !.inventory = [Metal |-> p.inventory.Metal - cost.Metal,
                                         Plutonium |-> p.inventory.Plutonium - cost.Plutonium],
                          !.aiModules = @ \cup {behavior}]
     IN probes' = MapProbes(probeId, Install)
  /\ hist' = Command("installAIModule")
  /\ UNCHANGED NotProbes

\* the checks read gameState; the updater sets the mode and an empty log
handleSetAIBehavior(probeId, behavior) ==
  LET gameState == rendered
      g == ProbeIndexFrom(gameState.probes, probeId, 1)
  IN
  /\ g > 0
  /\ gameState.probes[g].stats.autonomyLevel >= 2
  /\ behavior # "None" => behavior \in gameState.probes[g].aiModules
  /\ LET Set(p) == [p EXCEPT !.aiBehavior = behavior, !.aiDecisionLog = << << >> >>]
     IN probes' = MapProbes(probeId, Set)
  /\ hist' = Command("setAIBehavior")
  /\ UNCHANGED NotProbes

\* React renders the committed state; the handlers of the next event close
\* over it
Render ==
  /\ rendered' = Snapshot
  /\ hist' = Command("render")
  /\ UNCHANGED <<undefinedFields, pendingNames, maxStatLevelOverrides, probes, systems, generatedSectors, science, relays, purchasedUnlocks,
                 unlockedAIBehaviors, selectedProbeId>>

(***************************************************************************)
(* Commands: one manually commanded probe between two systems              *)
(***************************************************************************)

CmdMinX == 1450

CmdMaxX == 1650

CmdHome == StarSystem(1, 1500, TRUE, 50, 2, 2, 0)

CmdOther == StarSystem(2, 1600, TRUE, 50, 0, 0, 0)

CmdDeltas == {10000}

InitCmd ==
  /\ probes = << [ DockedProbe("probe-0", CmdHome, Stats(1, 1, 1, 300, 1, 2),
                               [Metal |-> 450, Plutonium |-> 60])
                     EXCEPT !.isAutonomyEnabled = FALSE ] >>
  /\ systems = << CmdHome, CmdOther >>
  /\ generatedSectors = { SectorKey(CmdHome.position) }
  /\ science = 0
  /\ relays = << >>
  /\ purchasedUnlocks = << RELAY_NETWORK >>
  /\ unlockedAIBehaviors = { "FocusExploring" }
  /\ selectedProbeId = "probe-0"
  /\ rendered = [ probes |-> probes, systems |-> systems, relays |-> << >>,
                  purchasedUnlocks |-> << RELAY_NETWORK >>,
                  unlockedAIBehaviors |-> { "FocusExploring" },
                  selectedProbeId |-> "probe-0", undefinedFields |-> {} ]
  /\ undefinedFields = {}
  /\ pendingNames = << >>
  /\ maxStatLevelOverrides = NoOverrides
  /\ hist = Command("load")

\* a click is followed by its render before the next event is handled; an
\* animation frame is not
Settled == hist.op \in {"load", "tick", "render"}

NextCmd ==
  \/ Render
  \/ Settled /\ \E delta \in CmdDeltas :
       Tick(delta, << >>) /\ InRange(probes', systems', CmdMinX, CmdMaxX)
  \/ Settled /\ handleLaunch(CmdOther.id)
  \/ Settled /\ \E heading \in {0, 180} :
       handleDeepSpaceLaunch(heading) /\ InRange(probes', systems', CmdMinX, CmdMaxX)
  \/ Settled /\ \E resource \in {"Metal", "Plutonium"} : handleMine(resource)
  \/ Settled /\ handleStopOperation
  \/ Settled /\ handleUpgradeProbe("probe-0", "miningSpeed")
  \/ Settled /\ handleDeployRelay
  \/ Settled /\ handleInstallAIModule("probe-0", "FocusExploring")

SpecCmd == InitCmd /\ [][NextCmd]_vars

\* C1: every probe's inventory holds at least 0 Metal and 0 Plutonium
C1_InventoryNonNegative ==
  \A i \in 1..Len(probes) :
    probes[i].inventory.Metal >= 0 /\ probes[i].inventory.Plutonium >= 0

(***************************************************************************)
(* Travel: one manually commanded probe shuttling between two systems,     *)
(* out on Plutonium and back under sail                                    *)
(***************************************************************************)

TravelHome == StarSystem(1, 1500, TRUE, 50, 0, 0, 0)

TravelTarget ==
  [ StarSystem(2, 1700, FALSE, 50, 0, 0, 0) EXCEPT !.discovered = TRUE ]

TravelDeltas == {10000, 20000}

InitTravel ==
  World(<< DockedProbe("probe-0", TravelHome, Stats(1, 1, 1, 100, 1, 0), [Metal |-> 0, Plutonium |-> 50]) >>,
        << TravelHome, TravelTarget >>,
        { SectorKey(TravelHome.position) })

\* the launch order is given to a probe at rest
NextTravel ==
  \/ \E delta \in TravelDeltas : Tick(delta, << >>)
  \/ \E target \in {TravelHome.id, TravelTarget.id} :
       /\ probes[SelectedIndex].state = "Idle"
       /\ probes[SelectedIndex].locationId # target
       /\ handleLaunch(target)

SpecTravel == InitTravel /\ [][NextTravel]_vars

\* requestAnimationFrame keeps calling tick
FairSpecTravel == SpecTravel /\ WF_vars(\E delta \in TravelDeltas : Tick(delta, << >>))

Arrived(i, target) ==
  LET t == FindIndex(systems, target) IN
  /\ probes[i].state = "Idle"
  /\ probes[i].locationId = target
  /\ t > 0
  /\ probes[i].position = systems[t].position
  /\ systems[t].visited /\ systems[t].discovered

\* C11: a Traveling probe whose departure and target systems exist eventually
\* becomes Idle docked at its target, at its target's position, with the
\* target visited and discovered, under sail as well as at full speed.
C11_TravelArrives ==
  (probes[1].state = "Traveling") ~> Arrived(1, probes[1].targetSystemId)

\* the probe is back home after a trip under sail
C11_Witness ==
  /\ hist.op = "tick"
  /\ Arrived(1, TravelHome.id)
  /\ probes[1].inventory.Plutonium < FuelNeeded(Dist(TravelTarget.position, TravelHome.position))

\* C12: when the continuous burn of an Exploring probe exceeds the Plutonium
\* it holds, the tick leaves the probe with exactly 0 Plutonium and in
\* solar-sailing mode.
C12_FuelClamp ==
  [][ hist'.op = "tick" =>
        \A n \in 1..Len(hist'.steps) :
          LET o == hist'.steps[n] IN
          (o.kind = "explore" /\ o.fuelBefore > 0
             /\ (Abs(o.to - o.from) * FUEL_CONSUMPTION_RATE_X10) \div 10 > o.fuelBefore)
            => \A i \in 1..Len(probes') :
                 probes'[i].id = o.probe
                   => probes'[i].inventory.Plutonium = 0 /\ probes'[i].isSolarSailing ]_vars

(***************************************************************************)
(* Analysis: handleAnalyze checks the rendered gameState, then marks the   *)
(* system in the updater; the lore arrives later and touches no flag       *)
(***************************************************************************)

handleAnalyze(systemId) ==
  LET gameState == rendered
      g == FindIndex(gameState.systems, systemId)
  IN
  /\ g > 0
  /\ ~gameState.systems[g].analyzed
  /\ \E k \in 1..Len(gameState.probes) :
       /\ gameState.probes[k].locationId = systemId
       /\ gameState.probes[k].state \notin {"Traveling", "Exploring"}
  /\ systems' = [ k \in 1..Len(systems) |->
                    IF IsSystem(systems[k]) /\ systems[k].id = systemId
                    THEN [systems[k] EXCEPT !.analyzed = TRUE]
                    ELSE systems[k] ]
  /\ hist' = Command("analyze")
  /\ UNCHANGED <<undefinedFields, pendingNames, maxStatLevelOverrides, probes, generatedSectors, science, relays, purchasedUnlocks,
                 unlockedAIBehaviors, selectedProbeId, rendered>>

(***************************************************************************)
(* Flags: a probe that scans, flies to and analyses a neighbouring system  *)
(***************************************************************************)

FlagsHome == StarSystem(1, 1500, TRUE, 50, 0, 0, 0)

FlagsNear == StarSystem(2, 1600, FALSE, 50, 0, 0, 0)

FlagsDeltas == {3000}

InitFlags ==
  /\ probes = << [ DockedProbe("probe-0", FlagsHome, Stats(1, 1, 1, 300, 1, 1),
                               [Metal |-> 0, Plutonium |-> 40])
                     EXCEPT !.isAutonomyEnabled = FALSE ] >>
  /\ systems = << FlagsHome, FlagsNear >>
  /\ generatedSectors = { SectorKey(FlagsHome.position) }
  /\ science = 0
  /\ relays = << >>
  /\ purchasedUnlocks = << >>
  /\ unlockedAIBehaviors = {}
  /\ selectedProbeId = "probe-0"
  /\ rendered = [ probes |-> probes, systems |-> systems, relays |-> << >>,
                  purchasedUnlocks |-> << >>, unlockedAIBehaviors |-> {},
                  selectedProbeId |-> "probe-0", undefinedFields |-> {} ]
  /\ undefinedFields = {}
  /\ pendingNames = << >>
  /\ maxStatLevelOverrides = NoOverrides
  /\ hist = Command("load")

NextFlags ==
  \/ Render
  \/ Settled /\ \E delta \in FlagsDeltas : Tick(delta, << >>)
  \/ Settled /\ handleScan
  \/ Settled /\ \E target \in {FlagsHome.id, FlagsNear.id} : handleLaunch(target)
  \/ Settled /\ \E systemId \in {FlagsHome.id, FlagsNear.id} : handleAnalyze(systemId)
  \/ Settled /\ handleToggleAutonomy("probe-0")

SpecFlags == InitFlags /\ [][NextFlags]_vars

Flags == {"discovered", "visited", "analyzed"}

\* C13: each of the flags discovered, visited and analyzed of a system, once
\* true, is true after every tick, autonomy decision and command.
C13_FlagsMonotonic ==
  [][ \A i \in 1..Len(systems) : \A f \in Flags \cap DOMAIN systems[i] :
        systems[i][f] =>
          i <= Len(systems') /\ f \in DOMAIN systems'[i] /\ systems'[i][f] ]_vars

\* the probe has flown to the neighbour it found by scanning and the system
\* carries all three flags
C13_Witness ==
  /\ hist.op \in {"tick", "analyze"}
  /\ probes[1].locationId = FlagsNear.id
  /\ probes[1].state = "Idle"
  /\ systems[2].discovered /\ systems[2].visited /\ systems[2].analyzed

\* C14: resourceYield.Metal and resourceYield.Plutonium of every system that
\* exists before a step are, after the step, at most what they were before.
C14_YieldNeverIncreases ==
  [][ \A i \in 1..Len(systems) : \A r \in {"Metal", "Plutonium"} :
        IsSystem(systems[i]) =>
          /\ i <= Len(systems')
          /\ systems'[i].id = systems[i].id
          /\ systems'[i].resourceYield[r] <= systems[i].resourceYield[r] ]_vars

\* a tick has mined the site empty
C14_Witness ==
  /\ hist.op = "tick"
  /\ MineSteps(hist) # << >>
  /\ systems[1].resourceYield.Metal = 0
  /\ systems[1].resourceYield.Plutonium = 0

(***************************************************************************)
(* Twins: two probes of one system building a Mark I each                  *)
(***************************************************************************)

TwinSite == StarSystem(1, 1500, TRUE, 50, 0, 0, 0)

TwinDeltas == {20000, 30000}

TwinOrigin == StarSystem(2, 1700, TRUE, 50, 0, 0, 0)

\* a probe that has come to TwinSite from TwinOrigin
Settler(id) ==
  [ DockedProbe(id, TwinSite, MarkI, [Metal |-> 50, Plutonium |-> 20]) EXCEPT
      !.originSystemId = TwinOrigin.id ]

InitTwins ==
  World(<< Settler("probe-0"), Settler("probe-1") >>,
        << TwinSite, TwinOrigin >>,
        { SectorKey(TwinSite.position) })

NextTwins ==
  \/ \E delta \in TwinDeltas : \E sameDraw \in BOOLEAN : TickWith(delta, << >>, sameDraw)
  \/ \E id \in IdsOf(probes) : handleSelectProbe(id)
  \/ handleReplicate(BpMark1)
  \/ handleStopOperation

SpecTwins == InitTwins /\ [][NextTwins]_vars

\* C15: all probes of the world have pairwise distinct ids in every reachable
\* state, also when several replications complete in the same tick.
C15_DistinctIds ==
  \A i, j \in 1..Len(probes) : i # j => probes[i].id # probes[j].id

SpawnSteps(h) == SelectSeq(h.steps, LAMBDA o : o.kind = "spawn")

\* C16: when a replication completes, the new probe's originSystemId and
\* locationId are the parent's locationId at that moment, the new probe is
\* Idle with autonomy enabled, and the tick's colonized set holds that system
\* id right after the completion.
C16_SpawnIdentity ==
  [][ hist'.op = "tick" =>
        LET spawns == SpawnSteps(hist') IN
        /\ Len(probes') = Len(probes) + Len(spawns)
        /\ \A k \in 1..Len(spawns) :
             LET child == probes'[Len(probes) + k] IN
             /\ child.id = spawns[k].child
             /\ child.originSystemId = spawns[k].parentLocation
             /\ child.locationId = spawns[k].parentLocation
             /\ child.state = "Idle"
             /\ child.isAutonomyEnabled
             /\ spawns[k].parentLocation # Null => spawns[k].parentLocation \in spawns[k].colonized ]_vars

\* both probes completed in one tick, at a system that was not colonized before
C16_Witness ==
  /\ hist.op = "tick"
  /\ Len(SpawnSteps(hist)) = 2
  /\ \A k \in 1..2 : SpawnSteps(hist)[k].parentLocation = TwinSite.id
  /\ \A i \in 1..2 : probes[i].originSystemId = TwinOrigin.id
  /\ Len(probes) = 4

ProbeCommands == {"launch", "mine", "scan", "replicate", "deployRelay"}

\* C17: the commands launch, mine, scan, replicate and deployRelay change a
\* probe only when it is Idle and docked at a system; for a probe in any other
\* state they leave all probes and systems unchanged.
C17_OnlyIdleDocked ==
  [][ hist'.op \in ProbeCommands =>
        /\ systems' = systems
        /\ Len(probes') = Len(probes)
        /\ \A i \in 1..Len(probes) :
             probes[i].state # "Idle" \/ probes[i].locationId = Null => probes'[i] = probes[i] ]_vars

(***************************************************************************)
(* Rejected commands: the paths of the handlers that return without        *)
(* applying the command; logged counts the lines the path appends to logs  *)
(***************************************************************************)

Rejection(name, logged) ==
  [op |-> name, delta |-> 0, steps |-> << [kind |-> "rejected", logged |-> logged] >>]

WorldVars == <<undefinedFields, pendingNames, maxStatLevelOverrides, probes, systems, generatedSectors, science, relays, purchasedUnlocks,
               unlockedAIBehaviors, selectedProbeId, rendered>>

\* if (!probe || !startSys || !targetSys) return prev
rejectedLaunch(targetSystemId) ==
  LET i == SelectedIndex
      startIdx == IF i > 0 THEN FindIndex(systems, probes[i].locationId) ELSE 0
      targetIdx == FindIndex(systems, targetSystemId)
  IN
  /\ i = 0 \/ startIdx = 0 \/ targetIdx = 0
  /\ hist' = Rejection("launch", 0)
  /\ UNCHANGED WorldVars

\* the two return prev of handleMine
rejectedMine(resource) ==
  LET i == SelectedIndex
      s == IF i > 0 THEN FindIndex(systems, probes[i].locationId) ELSE 0
  IN
  /\ \/ i = 0
     \/ probes[i].locationId = Null
     \/ s = 0
     \/ systems[s].resourceYield[resource] <= 0
  /\ hist' = Rejection("mine", 0)
  /\ UNCHANGED WorldVars

\* if (!probe || probe.state !== ProbeState.Idle) return prev
rejectedScan ==
  LET i == SelectedIndex IN
  /\ i = 0 \/ probes[i].state # "Idle"
  /\ hist' = Rejection("scan", 0)
  /\ UNCHANGED WorldVars

\* no parent: return prev; too few resources: prev with one more log line
rejectedReplicate(blueprint) ==
  LET i == SelectedIndex IN
  /\ \/ i = 0 /\ hist' = Rejection("replicate", 0)
     \/ /\ i > 0
        /\ \/ probes[i].inventory.Metal < blueprint.cost.Metal
           \/ probes[i].inventory.Plutonium < blueprint.cost.Plutonium
        /\ hist' = Rejection("replicate", 1)
  /\ UNCHANGED WorldVars

\* the bare returns of handleDeployRelay, taken on the state of the last render
rejectedDeployRelay ==
  LET gameState == rendered
      g == ProbeIndexFrom(gameState.probes, gameState.selectedProbeId, 1)
  IN
  /\ \/ g = 0
     \/ ~Includes(gameState.purchasedUnlocks, RELAY_NETWORK)
     \/ gameState.probes[g].state # "Idle"
     \/ gameState.probes[g].locationId = Null
     \/ FindIndex(gameState.systems, gameState.probes[g].locationId) = 0
     \/ /\ "relays" \notin gameState.undefinedFields
        /\ \/ \E r \in 1..Len(gameState.relays) :
                gameState.relays[r].systemId = gameState.probes[g].locationId
           \/ gameState.probes[g].inventory.Metal < RELAY_DEPLOY_COST_METAL
  /\ hist' = Rejection("deployRelay", 0)
  /\ UNCHANGED WorldVars

RejectHome == StarSystem(1, 1500, TRUE, 50, 2, 0, 0)

RejectOther == StarSystem(2, 1600, TRUE, 50, 0, 0, 0)

RejectDeltas == {30000}

InitReject ==
  /\ probes = << DockedProbe("probe-0", RejectHome, MarkI, [Metal |-> 400, Plutonium |-> 10]) >>
  /\ systems = << RejectHome, RejectOther >>
  /\ generatedSectors = { SectorKey(RejectHome.position) }
  /\ science = 0
  /\ relays = << >>
  /\ purchasedUnlocks = << RELAY_NETWORK >>
  /\ unlockedAIBehaviors = {}
  /\ selectedProbeId = "probe-0"
  /\ rendered = [ probes |-> probes, systems |-> systems, relays |-> << >>,
                  purchasedUnlocks |-> << RELAY_NETWORK >>,
                  unlockedAIBehaviors |-> {},
                  selectedProbeId |-> "probe-0", undefinedFields |-> {} ]
  /\ undefinedFields = {}
  /\ pendingNames = << >>
  /\ maxStatLevelOverrides = NoOverrides
  /\ hist = Command("load")

NextReject ==
  \/ Render
  \/ Settled /\ \E delta \in RejectDeltas : Tick(delta, << >>)
  \/ Settled /\ handleLaunch(RejectOther.id)
  \/ Settled /\ rejectedLaunch(RejectOther.id + 1)
  \/ Settled /\ handleMine("Metal")
  \/ Settled /\ rejectedMine("Plutonium")
  \/ Settled /\ handleScan
  \/ Settled /\ rejectedScan
  \/ Settled /\ rejectedReplicate(BpMark1)
  \/ Settled /\ handleDeployRelay
  \/ Settled /\ rejectedDeployRelay

SpecReject == InitReject /\ [][NextReject]_vars

\* C18: a command whose validation fails changes no probe, system, relay or
\* science and appends exactly one advisory log entry.
C18_RejectedLogsOnce ==
  [][ \A k \in 1..Len(hist'.steps) :
        hist'.steps[k].kind = "rejected" =>
          /\ hist'.steps[k].logged = 1
          /\ probes' = probes /\ systems' = systems /\ relays' = relays /\ science' = science ]_vars

(***************************************************************************)
(* Loading a save file                                                     *)
(***************************************************************************)

LoadFields ==
  {"probes", "systems", "generatedSectors", "science", "relays", "purchasedUnlocks",
   "maxStatLevelOverrides", "unlockedAIBehaviors", "selectedProbeId"}

\* the fields handleImportSave gives a value when the file has none
DefaultedFields == {"generatedSectors", "purchasedUnlocks", "maxStatLevelOverrides"}

\* the value the variable of a field holds when the file has no such field
EmptyValue ==
  [ probes |-> << >>, systems |-> << >>, generatedSectors |-> {}, science |-> 0, relays |-> << >>,
    purchasedUnlocks |-> << >>, maxStatLevelOverrides |-> NoOverrides,
    unlockedAIBehaviors |-> {}, selectedProbeId |-> "" ]

\* the fields of the current GameState
GameState ==
  [ probes |-> probes, systems |-> systems, generatedSectors |-> generatedSectors,
    science |-> science, relays |-> relays, purchasedUnlocks |-> purchasedUnlocks,
    maxStatLevelOverrides |-> maxStatLevelOverrides,
    unlockedAIBehaviors |-> unlockedAIBehaviors, selectedProbeId |-> selectedProbeId ]

\* only text that JSON.parse throws on is refused
Unparseable(file) == ~file.parses

\* JSON.parse throws, or if (!loadedData.systems || !loadedData.probes) throw
Malformed(file) == ~file.parses \/ "systems" \notin file.fields \/ "probes" \notin file.fields

\* the value of a probe field that is undefined
UndefinedValue ==
  [ heading |-> NoHeading, lastReplicationTime |-> Never, lastSafetyCheck |-> Never,
    pendingBlueprint |-> << >>, aiDecisionLog |-> << >> ]

\* JSON.stringify of a probe: a key whose value is undefined is left out
Stringify(probe) ==
  [ k \in { key \in DOMAIN probe :
              key \in DOMAIN UndefinedValue => probe[key] # UndefinedValue[key] } |-> probe[k] ]

\* JSON.parse of a probe: a key that is not in the text reads undefined
Parse(text) ==
  [ k \in DOMAIN text \cup DOMAIN UndefinedValue |->
      IF k \in DOMAIN text THEN text[k] ELSE UndefinedValue[k] ]

\* Array.from(gameState.generatedSectors)
RECURSIVE ArrayFrom(_)
ArrayFrom(set) ==
  IF set = {} THEN << >>
  ELSE LET first == CHOOSE key \in set : TRUE IN << first >> \o ArrayFrom(set \ {first})

\* a load that keeps no sector
NoSectors(array) == {}

\* new Set(loadedData.generatedSectors)
NewSet(array) == { array[i] : i \in 1..Len(array) }

\* handleExportSave: the file written for gameState, whose fields undefined
\* are undefined; JSON.stringify leaves these out, and generatedSectors,
\* purchasedUnlocks and maxStatLevelOverrides are always given a value
dataToSave(gameState, undefined) ==
  [ parses |-> TRUE,
    fields |-> (LoadFields \ undefined) \cup DefaultedFields,
    data |-> [gameState EXCEPT
                !.generatedSectors = ArrayFrom(@),
                !.probes = [i \in 1..Len(@) |-> Stringify(@[i])]] ]

\* loadedData as handleImportSave hands it to setGameState
Loaded(file) ==
  [ f \in LoadFields |->
      IF f \notin file.fields THEN EmptyValue[f]
      ELSE IF f = "generatedSectors" THEN NewSet(file.data[f])
      ELSE IF f = "probes" THEN [i \in 1..Len(file.data[f]) |-> Parse(file.data[f][i])]
      ELSE file.data[f] ]

\* reader.onload: the try block ends in setGameState({...loadedData, ...}), the
\* catch block appends the error line to prev.logs
handleImportSave(file) ==
  LET failed == Malformed(file)
      After == IF failed THEN GameState ELSE Loaded(file)
  IN
  /\ probes' = After.probes
  /\ systems' = After.systems
  /\ generatedSectors' = After.generatedSectors
  /\ science' = After.science
  /\ relays' = After.relays
  /\ purchasedUnlocks' = After.purchasedUnlocks
  /\ maxStatLevelOverrides' = After.maxStatLevelOverrides
  /\ unlockedAIBehaviors' = After.unlockedAIBehaviors
  /\ selectedProbeId' = After.selectedProbeId
  /\ undefinedFields' = IF failed THEN undefinedFields
                        ELSE (LoadFields \ file.fields) \ DefaultedFields
  /\ hist' = [op |-> "import", delta |-> 0,
              steps |-> << [kind |-> "import", parses |-> file.parses, fields |-> file.fields,
                            failed |-> failed] >>]
  /\ UNCHANGED <<rendered, pendingNames>>

LoadSite == StarSystem(1, 1500, TRUE, 50, 2, 0, 0)

LoadDeltas == {1000}

\* the world a save file was exported from
SavedGame ==
  [ probes |-> << DockedProbe("probe-0", LoadSite, MarkI, [Metal |-> 7, Plutonium |-> 5]) >>,
    systems |-> << LoadSite >>,
    generatedSectors |-> { SectorKey(LoadSite.position) },
    science |-> 5,
    relays |-> << [systemId |-> LoadSite.id, position |-> LoadSite.position] >>,
    purchasedUnlocks |-> << RELAY_NETWORK >>,
    maxStatLevelOverrides |-> NoOverrides,
    unlockedAIBehaviors |-> { "FocusExploring" },
    selectedProbeId |-> "probe-0" ]

\* the optional world fields
OptionalFields ==
  {"generatedSectors", "science", "relays", "purchasedUnlocks", "maxStatLevelOverrides",
   "unlockedAIBehaviors"}

\* the files offered: text that does not parse, the whole save, the save with
\* one field left out, the save with all optional fields left out
Files ==
  { [parses |-> FALSE, fields |-> {}, data |-> dataToSave(SavedGame, {}).data] }
    \cup { [parses |-> TRUE, fields |-> LoadFields \ missing, data |-> dataToSave(SavedGame, {}).data] :
             missing \in {{}, OptionalFields}
                          \cup { {f} : f \in OptionalFields \cup {"probes", "systems"} } }

InitLoad ==
  World(<< DockedProbe("probe-0", LoadSite, MarkI, [Metal |-> 0, Plutonium |-> 0]) >>,
        << LoadSite >>,
        { SectorKey(LoadSite.position) })

NextLoad ==
  \/ \E file \in Files : handleImportSave(file)
  \/ \E delta \in LoadDeltas : Tick(delta, << >>)
  \/ handleMine("Metal")
  \/ handleStopOperation

SpecLoad == InitLoad /\ [][NextLoad]_vars

ImportSteps(h) == SelectSeq(h.steps, LAMBDA o : o.kind = "import")

\* C19: loading a malformed snapshot (text that does not parse, or no systems,
\* or no probes) leaves every field of the world as it was and reports the
\* failure; any other load replaces every field of the world by what the file
\* gives for it, keeping nothing of the world before.
C19_LoadAllOrNothing ==
  [][ \A k \in 1..Len(ImportSteps(hist')) :
        LET o == ImportSteps(hist')[k] IN
        IF ~o.parses \/ "systems" \notin o.fields \/ "probes" \notin o.fields
        THEN /\ o.failed
             /\ GameState' = GameState
             /\ undefinedFields' = undefinedFields
        ELSE /\ ~o.failed
             /\ \A f \in LoadFields :
                  GameState'[f] = IF f \in o.fields THEN SavedGame[f] ELSE EmptyValue[f] ]_vars

\* a save without probes was refused while the probe of the world was mining
\* and the system had already lost yield
C19_Witness ==
  /\ ImportSteps(hist) # << >>
  /\ ImportSteps(hist)[1].parses
  /\ ImportSteps(hist)[1].failed
  /\ "probes" \notin ImportSteps(hist)[1].fields
  /\ probes[1].state = "MiningMetal"
  /\ systems[1].resourceYield.Metal < LoadSite.resourceYield.Metal

\* C20: after a successful load of a snapshot that leaves out optional world
\* fields, every field of the world holds a defined value.
C20_DefaultsAfterLoad ==
  ImportSteps(hist) # << >> /\ ~ImportSteps(hist)[1].failed => undefinedFields = {}

(***************************************************************************)
(* Naming: the answers of generateProbeName, and probes removed meanwhile  *)
(***************************************************************************)

\* probes: prev.probes.filter((p) => p.id !== probeId)
handleSelfDestruct(probeId) ==
  /\ probes' = SelectSeq(probes, LAMBDA p : p.id # probeId)
  /\ selectedProbeId' = IF selectedProbeId = probeId THEN "" ELSE selectedProbeId
  /\ hist' = Command("selfDestruct")
  /\ UNCHANGED <<systems, generatedSectors, science, relays, purchasedUnlocks,
                 unlockedAIBehaviors, undefinedFields, pendingNames, maxStatLevelOverrides,
                 rendered>>

\* an answer written to the probe created last
PatchLast(ps, id, name) ==
  [ k \in 1..Len(ps) |-> IF k = Len(ps) THEN [ps[k] EXCEPT !.name = name] ELSE ps[k] ]

\* g.probes.map((p) => p.id === newProbe.id ? { ...p, name } : p)
PatchName(ps, id, name) ==
  [ k \in 1..Len(ps) |-> IF ps[k].id = id THEN [ps[k] EXCEPT !.name = name] ELSE ps[k] ]

\* the then() of the k-th outstanding generateProbeName call
nameResponse(k, name) ==
  /\ k \in 1..Len(pendingNames)
  /\ probes' = PatchName(probes, pendingNames[k], name)
  /\ pendingNames' = [ j \in 1..(Len(pendingNames) - 1) |->
                         IF j < k THEN pendingNames[j] ELSE pendingNames[j + 1] ]
  /\ hist' = [op |-> "named", delta |-> 0,
              steps |-> << [kind |-> "named", id |-> pendingNames[k], name |-> name] >>]
  /\ UNCHANGED <<systems, generatedSectors, science, relays, purchasedUnlocks,
                 unlockedAIBehaviors, selectedProbeId, undefinedFields, maxStatLevelOverrides,
                 rendered>>

NameDeltas == {30000}

GeneratedNames == {"Vanguard", "Pioneer"}

NextNames ==
  \/ \E delta \in NameDeltas : \E sameDraw \in BOOLEAN : TickWith(delta, << >>, sameDraw)
  \/ \E id \in IdsOf(probes) : handleSelectProbe(id)
  \/ handleReplicate(BpMark1)
  \/ \E id \in IdsOf(probes) : handleSelfDestruct(id)
  \/ \E k \in 1..Len(pendingNames) : \E name \in GeneratedNames : nameResponse(k, name)

SpecNames == InitTwins /\ [][NextNames]_vars

\* C21: a naming response, after any interleaving of ticks and commands,
\* changes only the name of the probes carrying the id it was requested for;
\* when no probe carries that id any more it changes nothing.
C21_NamePatchedById ==
  [][ hist'.op = "named" =>
        LET o == hist'.steps[1] IN
        /\ Len(probes') = Len(probes)
        /\ \A i \in 1..Len(probes) :
             probes'[i] = IF probes[i].id = o.id THEN [probes[i] EXCEPT !.name = o.name]
                          ELSE probes[i]
        /\ (o.id \notin IdsOf(probes) => probes' = probes)
        /\ systems' = systems /\ generatedSectors' = generatedSectors /\ science' = science
        /\ relays' = relays /\ selectedProbeId' = selectedProbeId ]_vars

\* the answer for a probe that was destroyed arrived while another new probe
\* was still waiting for its name
C21_Witness ==
  /\ hist.op = "named"
  /\ hist.steps[1].id \notin IdsOf(probes)
  /\ \E i \in 1..Len(probes) : probes[i].name = "Constructing..."

(***************************************************************************)
(* Replay: the tick as a function of the world, the delta and the draws    *)
(***************************************************************************)

\* the world the updater of a tick returns
Committed(end) ==
  [ probes |-> ProbeList(end.finalProbes, end.createdProbes),
    systems |-> end.systems,
    generatedSectors |-> end.sectors,
    science |-> science + end.scienceDeltaTotal ]

\* the world after a tick of delta over the current world, for given draws
TickResult(delta, outcome, sameDraw) ==
  Committed(TickFold(TickStart, 1, delta, outcome, sameDraw))

InitReplay ==
  World(<< [ DockedProbe("probe-0", ExploreHome, Stats(1, 1, 3, 300, 1, 0),
                         [Metal |-> 50, Plutonium |-> 60])
               EXCEPT !.isAutonomyEnabled = FALSE ] >>,
        << ExploreHome >>,
        { SectorKey(ExploreHome.position) })

NextReplay ==
  \/ \E delta \in ExploreDeltas : \E outcome \in GenOutcomes :
       Tick(delta, outcome) /\ InRange(probes', systems', MinX, MaxX)
  \/ \E heading \in {0, 180} :
       handleDeepSpaceLaunch(heading) /\ InRange(probes', systems', MinX, MaxX)
  \/ handleScan

SpecReplay == InitReplay /\ [][NextReplay]_vars

\* C22: with autonomy disabled on every probe, two ticks of the same delta
\* over the same world give the same world (probes, systems, generated
\* sectors, science), also when sectors are generated.
C22_DeterministicReplay ==
  (\A i \in 1..Len(probes) : ~probes[i].isAutonomyEnabled) =>
    \A delta \in ExploreDeltas : \A o1, o2 \in GenOutcomes : \A d1, d2 \in BOOLEAN :
      TickResult(delta, o1, d1) = TickResult(delta, o2, d2)

(***************************************************************************)
(* Science unlocks                                                         *)
(***************************************************************************)

Unlock(id, cost, prerequisites, target, value) ==
  [id |-> id, cost |-> cost, prerequisites |-> prerequisites, target |-> target, value |-> value]

\* constants.ts; target "" stands for an effect that raises no maximum level
SCIENCE_UNLOCKS ==
  << Unlock("mining_advanced", 500, << >>, "miningSpeed", 5),
     Unlock("propulsion_improved", 600, << >>, "flightSpeed", 5),
     Unlock("sensors_enhanced", 700, << >>, "scanRange", 500),
     Unlock("fabrication_faster", 800, << >>, "replicationSpeed", 3),
     Unlock("mining_expert", 1200, << "mining_advanced" >>, "miningSpeed", 5),
     Unlock("propulsion_mastery", 1500, << "propulsion_improved" >>, "flightSpeed", 5),
     Unlock("sensors_deep", 1800, << "sensors_enhanced" >>, "scanRange", 1000),
     Unlock("sensors_processing", 1600, << "sensors_enhanced" >>, "scanSpeed", 5),
     Unlock("fabrication_advanced", 1400, << "fabrication_faster" >>, "replicationSpeed", 4),
     Unlock("mining_ultimate", 2500, << "mining_expert" >>, "miningSpeed", 10),
     Unlock("propulsion_ultimate", 3000, << "propulsion_mastery" >>, "flightSpeed", 10),
     Unlock("sensors_ultimate", 3500, << "sensors_deep" >>, "scanRange", 2500),
     Unlock("fabrication_ultimate", 4000, << "fabrication_advanced" >>, "replicationSpeed", 8),
     Unlock(RELAY_NETWORK, 400, << >>, "", 0),
     Unlock("ai_behavior_protocols", 1000, << >>, "", 0),
     Unlock("focus_mining_module", 1500, << "ai_behavior_protocols" >>, "", 0),
     Unlock("focus_exploring_module", 1500, << "ai_behavior_protocols" >>, "", 0),
     Unlock("focus_science_module", 2000, << "focus_exploring_module" >>, "", 0) >>

\* SCIENCE_UNLOCKS.find((u) => u.id === unlockId): its index, 0 if none
UnlockIndex(unlockId) ==
  LET found == { k \in 1..Len(SCIENCE_UNLOCKS) : SCIENCE_UNLOCKS[k].id = unlockId } IN
  IF found = {} THEN 0 ELSE CHOOSE k \in found : \A m \in found : k <= m

\* unlock.prerequisites.filter((prereqId) => !prev.purchasedUnlocks.includes(prereqId))
MissingPrereqs(unlock, purchased) ==
  SelectSeq(unlock.prerequisites, LAMBDA prereqId : ~Includes(purchased, prereqId))

\* prev.science < unlock.cost; a comparison with undefined or NaN is false
Insufficient(unlock) == "science" \notin undefinedFields /\ science < unlock.cost

\* the behaviours pushed for the three module unlocks
BehaviorOf(unlockId) ==
  CASE unlockId = "focus_mining_module" -> {"FocusMining"}
    [] unlockId = "focus_exploring_module" -> {"FocusExploring"}
    [] unlockId = "focus_science_module" -> {"FocusScience"}
    [] OTHER -> {}

handlePurchaseUnlock(unlockId) ==
  LET u == UnlockIndex(unlockId) IN
  /\ u > 0
  /\ ~Includes(purchasedUnlocks, unlockId)
  /\ ~Insufficient(SCIENCE_UNLOCKS[u])
  /\ MissingPrereqs(SCIENCE_UNLOCKS[u], purchasedUnlocks) = << >>
  /\ LET unlock == SCIENCE_UNLOCKS[u] IN
     /\ science' = science - unlock.cost
     /\ purchasedUnlocks' = Append(purchasedUnlocks, unlockId)
     /\ maxStatLevelOverrides' =
          IF unlock.target # ""
          THEN [maxStatLevelOverrides EXCEPT
                  ![unlock.target] = MaxLevel(maxStatLevelOverrides, unlock.target) + unlock.value]
          ELSE maxStatLevelOverrides
     /\ unlockedAIBehaviors' = unlockedAIBehaviors \cup BehaviorOf(unlockId)
  /\ hist' = Command("purchaseUnlock")
  /\ UNCHANGED <<probes, systems, generatedSectors, relays, selectedProbeId, undefinedFields,
                 pendingNames, rendered>>

\* if (!unlock) return prev; the three validation failures each return prev
\* with one more log line
rejectedPurchaseUnlock(unlockId) ==
  LET u == UnlockIndex(unlockId) IN
  /\ \/ u = 0 /\ hist' = Rejection("purchaseUnlock", 0)
     \/ /\ u > 0
        /\ \/ Includes(purchasedUnlocks, unlockId)
           \/ Insufficient(SCIENCE_UNLOCKS[u])
           \/ MissingPrereqs(SCIENCE_UNLOCKS[u], purchasedUnlocks) # << >>
        /\ hist' = Rejection("purchaseUnlock", 1)
  /\ UNCHANGED WorldVars

\* the Set Science button of the AdminPanel
handleSetScience(value) ==
  /\ science' = value
  /\ hist' = Command("setScience")
  /\ UNCHANGED <<probes, systems, generatedSectors, relays, purchasedUnlocks, unlockedAIBehaviors,
                 selectedProbeId, undefinedFields, pendingNames, maxStatLevelOverrides, rendered>>

\* what is typed into the Global Science field
ScienceInputs == {0 - 100, 2000, 5000}

\* the unlocks offered for purchase, and an id that SCIENCE_UNLOCKS does not hold
UnlocksTried ==
  {"mining_advanced", "mining_expert", RELAY_NETWORK, "ai_behavior_protocols",
   "focus_exploring_module", "focus_science_module", "warp_drive"}

InitScience ==
  World(<< DockedProbe("probe-0", MineSite, MarkI, [Metal |-> 0, Plutonium |-> 0]) >>,
        << MineSite >>,
        { SectorKey(MineSite.position) })

NextScience ==
  \/ \E unlockId \in UnlocksTried : handlePurchaseUnlock(unlockId)
  \/ \E unlockId \in UnlocksTried : rejectedPurchaseUnlock(unlockId)
  \/ \E value \in ScienceInputs : handleSetScience(value)

SpecScience == InitScience /\ [][NextScience]_vars

NoDuplicates(arr) == \A j, k \in 1..Len(arr) : j # k => arr[j] # arr[k]

PrereqsPurchased(purchased) ==
  \A k \in 1..Len(purchased) :
    UnlockIndex(purchased[k]) > 0 =>
      MissingPrereqs(SCIENCE_UNLOCKS[UnlockIndex(purchased[k])], purchased) = << >>

\* C23: in every state reached the science pool is at least 0, purchasedUnlocks
\* holds no id twice and holds the prerequisites of every unlock it holds; a
\* rejected purchase leaves science, purchasedUnlocks and the max-level
\* overrides as they were.
C23_ScienceLedger ==
  [][ /\ science' >= 0
      /\ NoDuplicates(purchasedUnlocks')
      /\ PrereqsPurchased(purchasedUnlocks')
      /\ (hist'.op = "purchaseUnlock" /\ hist'.steps # << >> =>
            /\ science' = science
            /\ purchasedUnlocks' = purchasedUnlocks
            /\ maxStatLevelOverrides' = maxStatLevelOverrides) ]_vars

\* C24: a probe's targetSystemId is set only while the probe is Traveling.
C24_TargetOnlyTraveling ==
  \A i \in 1..Len(probes) : probes[i].targetSystemId # Null => probes[i].state = "Traveling"

(***************************************************************************)
(* Orders: a probe that is building is given other orders                  *)
(***************************************************************************)

NextOrders ==
  \/ \E delta \in NameDeltas : Tick(delta, << >>)
  \/ handleReplicate(BpMark1)
  \/ handleLaunch(TwinOrigin.id)
  \/ handleStopOperation

SpecOrders == InitTwins /\ [][NextOrders]_vars

\* C25: a probe holds a pendingBlueprint exactly while it is Replicating.
C25_BlueprintIffReplicating ==
  \A i \in 1..Len(probes) :
    probes[i].pendingBlueprint # << >> <=> probes[i].state = "Replicating"

(***************************************************************************)
(* Autonomy: which probes the tick hands to the engine                     *)
(***************************************************************************)

Eligible(probe) == probe.stats.autonomyLevel > 0 /\ probe.isAutonomyEnabled

\* the tick's accumulator before its first probe, as RunAutonomy reads it
Seen == [ systems |-> systems, colonized |-> TickStart.colonized ]

\* C26: on a tick an eligible probe is left without re-evaluation exactly in
\* the states Traveling, Replicating and Exploring: in every other state the
\* tick's autonomy block gives what the engine's evaluation gives.  A probe
\* that is not eligible comes out of the block as it went in, with no system
\* change.
C26_SkippedStates ==
  \A i \in 1..Len(probes) : \A hasRelayUnlock \in BOOLEAN :
    LET ran == RunAutonomy(Seen, probes[i], RelaySystems, hasRelayUnlock)
        engine == processAutonomousProbe(probes[i], systems, Seen.colonized, RelaySystems, hasRelayUnlock)
    IN /\ Eligible(probes[i]) /\ probes[i].state \in {"Traveling", "Replicating", "Exploring"}
            => ran = AutonomyResult(probes[i], << >>)
       /\ Eligible(probes[i]) /\ probes[i].state \notin {"Traveling", "Replicating", "Exploring"}
            => ran = engine
       /\ ~Eligible(probes[i]) => ran = AutonomyResult(probes[i], << >>)

(***************************************************************************)
(* Autonomy: a probe with a behaviour mode at a spent system, a rich one   *)
(* within reach                                                            *)
(***************************************************************************)

AutoHome == StarSystem(1, 1500, TRUE, 50, 0, 0, 0)

AutoFar == [ StarSystem(2, 1700, FALSE, 50, 0, 60, 30) EXCEPT !.discovered = TRUE ]

AutoDeltas == {1500, 20000}

AutoModes == {"None", "FocusMining", "FocusExploring", "FocusScience", "FocusReplication"}

InitAuto ==
  \E mode \in AutoModes : \E plutonium \in {30, 60} :
    World(<< [ DockedProbe("probe-0", AutoHome, Stats(1, 1, 1, 300, 1, 2), [Metal |-> 0, Plutonium |-> plutonium])
                 EXCEPT !.aiBehavior = mode, !.aiModules = {mode} \ {"None"} ] >>,
          << AutoHome, AutoFar >>,
          { SectorKey(AutoHome.position), SectorKey(AutoFar.position) })

NextAuto ==
  \/ \E delta \in AutoDeltas : Tick(delta, << >>)
  \/ handleToggleAutonomy("probe-0")
  \/ probes[SelectedIndex].state = "Idle" /\ handleLaunch(AutoFar.id)

SpecAuto == InitAuto /\ [][NextAuto]_vars

\* an eligible docked probe that has not scanned where it is, in a state the
\* engine evaluates
Unscanned(probe) ==
  /\ Eligible(probe)
  /\ probe.locationId # Null
  /\ probe.lastScannedSystemId # probe.locationId
  /\ probe.state \notin {"Traveling", "Replicating", "Exploring"}

\* C27: the engine's evaluation of an eligible docked probe whose
\* lastScannedSystemId differs from its locationId gives the probe in state
\* Scanning and commits no action of the behaviour mode: no decision is
\* taken, no replication is started, inventory and target are as before,
\* whatever the behaviour mode.
C27_ScanBeforeMode ==
  \A i \in 1..Len(probes) : \A hasRelayUnlock \in BOOLEAN :
    Unscanned(probes[i]) =>
      LET result == processAutonomousProbe(probes[i], systems, Seen.colonized, RelaySystems, hasRelayUnlock) IN
      /\ result.probe.state = "Scanning"
      /\ result.decision = << >>
      /\ ~result.shouldReplicate
      /\ result.probe.inventory = probes[i].inventory
      /\ result.probe.targetSystemId = probes[i].targetSystemId

\* the tick's engine has put a probe with a behaviour mode to its first scan
\* of the system it has arrived at
C27_Witness ==
  /\ hist.op = "tick"
  /\ \E i \in 1..Len(probes) :
       /\ Unscanned(probes[i])
       /\ probes[i].state = "Scanning"
       /\ probes[i].locationId = AutoFar.id
       /\ probes[i].aiBehavior = "FocusMining"

(***************************************************************************)
(* Fuel: the engine's travel decisions                                     *)
(***************************************************************************)

\* the probe as the decision step receives it
Interrupted(probe) ==
  IF probe.state \in {"MiningMetal", "MiningPlutonium", "Scanning", "Researching"}
  THEN [probe EXCEPT !.state = "Idle", !.progress = 0, !.miningBuffer = 0]
  ELSE probe

\* case "travel" of the engine for a decision naming targetSystemId
DecideTravel(targetSystemId) ==
  /\ Eligible(probes[1])
  /\ probes[1].state \notin {"Traveling", "Replicating", "Exploring"}
  /\ probes[1].locationId # Null /\ probes[1].locationId # targetSystemId
  /\ hist' = [ op |-> "decide", delta |-> 0,
               steps |-> << [ kind |-> "travel", targetSystemId |-> targetSystemId,
                              before |-> Interrupted(probes[1]),
                              after |-> ExecuteDecision(Interrupted(probes[1]), systems, probes[1].state,
                                                        TravelTo(targetSystemId, "travel")[1]) ] >> ]
  /\ UNCHANGED WorldVars

NextFuel ==
  \/ \E delta \in AutoDeltas : Tick(delta, << >>)
  \/ handleToggleAutonomy("probe-0")
  \/ \E targetSystemId \in {AutoHome.id, AutoFar.id} : DecideTravel(targetSystemId)

SpecFuel == InitAuto /\ [][NextFuel]_vars

FuelTo(probe, targetSystemId) ==
  FuelNeeded(Dist(systems[FindIndex(systems, targetSystemId)].position, probe.position))

RelayDeltas == {10000, 20000}

InitRelay ==
  \E metal \in {400, 500} : \E plutonium \in {30, 60, 100} :
    /\ probes = << [ DockedProbe("probe-0", AutoHome, Stats(1, 1, 1, 300, 1, 2),
                                 [Metal |-> metal, Plutonium |-> plutonium])
                       EXCEPT !.aiBehavior = "FocusScience", !.aiModules = {"FocusScience"} ] >>
    /\ systems = << AutoHome, AutoFar >>
    /\ generatedSectors = { SectorKey(AutoHome.position), SectorKey(AutoFar.position) }
    /\ science = 0
    /\ relays = << >>
    /\ purchasedUnlocks = << RELAY_NETWORK >>
    /\ unlockedAIBehaviors = {"FocusScience"}
    /\ selectedProbeId = "probe-0"
    /\ rendered = NoSnapshot
    /\ undefinedFields = {}
    /\ pendingNames = << >>
    /\ maxStatLevelOverrides = NoOverrides
    /\ hist = Command("load")

NextRelay ==
  \/ \E delta \in RelayDeltas : Tick(delta, << >>)
  \/ handleSelectProbe("probe-0")

SpecRelay == InitRelay /\ [][NextRelay]_vars

\* the rung of the FocusScience ladder that deploys a relay applies at the
\* system: an eligible FocusScience probe with the Metal for a relay is docked
\* there, the system has no science left and no relay, and the relay network
\* is purchased
RelayDue(systemId) ==
  /\ Includes(purchasedUnlocks, RELAY_NETWORK)
  /\ systemId \notin RelaySystems
  /\ FindIndex(systems, systemId) > 0
  /\ systems[FindIndex(systems, systemId)].scienceRemaining = 0
  /\ \E i \in 1..Len(probes) :
       /\ Eligible(probes[i]) /\ probes[i].aiBehavior = "FocusScience"
       /\ probes[i].locationId = systemId /\ probes[i].state = "Idle"
       /\ probes[i].lastScannedSystemId = systemId
       /\ probes[i].inventory.Metal >= RELAY_DEPLOY_COST_METAL

\* C29: when the relay rung of the FocusScience ladder applies at a system,
\* the probe goes on to the next rung (it leaves for a system with science)
\* only once a relay exists at that system: no tick takes the probe from the
\* system while the system is without a relay.
C29_RelayBeforeTravel ==
  [][ hist'.op = "tick" /\ RelayDue(AutoHome.id) =>
        \/ AutoHome.id \in { relays'[k].systemId : k \in 1..Len(relays') }
        \/ \A i \in 1..Len(probes') :
             probes'[i].locationId = AutoHome.id /\ probes'[i].state # "Traveling" ]_vars

(***************************************************************************)
(* Research: two FocusScience probes at one system                         *)
(***************************************************************************)

ResearchDeltas == {5000, 10000}

ResearchSite(scienceRemaining) == StarSystem(1, 1500, TRUE, 50, 0, 0, scienceRemaining)

Researcher(id, site) ==
  [ DockedProbe(id, site, Stats(1, 1, 1, 300, 1, 2), [Metal |-> 0, Plutonium |-> 0])
      EXCEPT !.aiBehavior = "FocusScience", !.aiModules = {"FocusScience"} ]

InitResearch ==
  \E scienceRemaining \in {30, 50, 70} :
    World(<< Researcher("probe-0", ResearchSite(scienceRemaining)),
             Researcher("probe-1", ResearchSite(scienceRemaining)) >>,
          << ResearchSite(scienceRemaining) >>,
          { SectorKey(ResearchSite(scienceRemaining).position) })

NextResearch ==
  \/ \E delta \in ResearchDeltas : Tick(delta, << >>)
  \/ \E id \in {"probe-0", "probe-1"} : handleToggleAutonomy(id)

SpecResearch == InitResearch /\ [][NextResearch]_vars

\* the research steps of the last tick, in processing order
ResearchSteps(h) == SelectSeq(h.steps, LAMBDA o : o.kind = "research")

RECURSIVE SumCollected(_)
SumCollected(steps) == IF steps = << >> THEN 0 ELSE Head(steps).gained + SumCollected(Tail(steps))

\* C30: in every tick each Researching step collects min(rate * dt, what the
\* system had left before the step), the science pool grows by what the
\* systems lose, scienceRemaining never goes below 0 also when several probes
\* research one system in the tick, and a probe whose step takes the last
\* science becomes Idle.
C30_ResearchLedger ==
  [][ hist'.op = "tick" =>
        LET steps == ResearchSteps(hist') IN
        /\ \A k \in 1..Len(steps) :
             /\ steps[k].gained
                  = Min((RESEARCH_RATE_BASE * steps[k].scanSpeed * hist'.delta) \div 1000, steps[k].before)
             /\ steps[k].before
                  = systems[steps[k].index].scienceRemaining
                      - SumCollected(SelectSeq(SubSeq(steps, 1, k - 1),
                                               LAMBDA o : o.index = steps[k].index))
             /\ steps[k].gained = steps[k].before =>
                  \E i \in 1..Len(probes') : probes'[i].id = steps[k].id /\ probes'[i].state = "Idle"
        /\ science' - science = SumCollected(steps)
        /\ \A s \in 1..Len(systems) :
             /\ systems'[s].scienceRemaining >= 0
             /\ systems[s].scienceRemaining - systems'[s].scienceRemaining
                  = SumCollected(SelectSeq(steps, LAMBDA o : o.index = s)) ]_vars

\* two probes researched one system in the tick, and the second took the
\* last of its science, less than a full step
C30_Witness ==
  /\ hist.op = "tick"
  /\ Len(ResearchSteps(hist)) = 2
  /\ ResearchSteps(hist)[1].index = ResearchSteps(hist)[2].index
  /\ ResearchSteps(hist)[2].gained = ResearchSteps(hist)[2].before
  /\ ResearchSteps(hist)[2].gained < (RESEARCH_RATE_BASE * hist.delta) \div 1000
  /\ systems[1].scienceRemaining = 0
  /\ \E i \in 1..Len(probes) :
       probes[i].id = ResearchSteps(hist)[2].id /\ probes[i].state = "Idle"

(***************************************************************************)
(* Cooldown: a FocusReplication probe with stock for two replications      *)
(***************************************************************************)

\* C31: two successive autonomous replicate commits of one probe lie at least
\* REPLICATION_COOLDOWN of tick time apart: a probe that commits a replicate
\* in a tick and has replicated before did so at least that long before the
\* tick.
C31_ReplicationCooldown ==
  [][ hist'.op = "tick" =>
        \A k \in 1..Len(ReplicateSteps(hist')) : \A i \in 1..Len(probes) :
          probes[i].id = ReplicateSteps(hist')[k].probe /\ probes[i].lastReplicationTime # Never
            => probes[i].lastReplicationTime + hist'.delta >= REPLICATION_COOLDOWN ]_vars

\* probe-0 has committed its second replicate: the stock for two is spent
C31_Witness ==
  /\ hist.op = "tick"
  /\ \E k \in 1..Len(ReplicateSteps(hist)) : ReplicateSteps(hist)[k].probe = "probe-0"
  /\ probes[1].id = "probe-0" /\ probes[1].state = "Replicating"
  /\ probes[1].inventory.Metal = 0

(***************************************************************************)
(* One step per probe                                                      *)
(***************************************************************************)

\* what one state-processor step of delta makes of a probe without autonomy
\* that is Idle or Replicating
OneStep(probe, delta) ==
  IF probe.state = "Replicating"
  THEN processReplicatingProbe(AtNow(probe, delta), delta, probe.id).probe
  ELSE AtNow(probe, delta)

\* C32: a tick takes every probe of the list one state-processor step on, in
\* list order, and keeps it at its place with its id; the probes created in
\* the tick follow them in the order of their parents, and are as they were
\* created (Idle, progress 0): they are not stepped in the tick.
C32_OneStepEach ==
  [][ hist'.op = "tick" =>
        LET spawns == SpawnSteps(hist') IN
        /\ Len(probes') = Len(probes) + Len(spawns)
        /\ \A i \in 1..Len(probes) :
             /\ probes'[i].id = probes[i].id
             /\ probes'[i] = OneStep(probes[i], hist'.delta)
        /\ \A k \in 1..Len(spawns) :
             /\ probes'[Len(probes) + k].id = spawns[k].child
             /\ probes'[Len(probes) + k].state = "Idle"
             /\ probes'[Len(probes) + k].progress = 0
             /\ probes'[Len(probes) + k].lastDiversionCheck = 0
        /\ \A k, m \in 1..Len(spawns) :
             k < m => ProbeIndexFrom(probes, spawns[k].probe, 1) < ProbeIndexFrom(probes, spawns[m].probe, 1) ]_vars

\* a tick has completed one replication and taken the other one step on
C32_Witness ==
  /\ hist.op = "tick"
  /\ Len(SpawnSteps(hist)) = 1
  /\ Len(probes) = 3
  /\ \E i \in 1..2 : probes[i].state = "Replicating" /\ probes[i].progress > 0

(***************************************************************************)
(* The inputs of a frame                                                   *)
(***************************************************************************)

\* const updatedProbe = { ...probe } copies the fields of the probe and so
\* shares its inventory object; every payment and every collection of a
\* frame is written into that object.  The probe of prev as the frame that
\* made updatedProbe of it leaves it
InputAfter(probe, updatedProbe) == [probe EXCEPT !.inventory = updatedProbe.inventory]

\* C33: the state processors and processAutonomousProbe do not modify their
\* inputs: the probes of the snapshot a tick started from, inventory object
\* included, are after the tick what they were before it.
C33_InputsUnchanged ==
  [][ hist'.op = "tick" =>
        \A i \in 1..Len(probes) : \A j \in 1..Len(probes') :
          probes'[j].id = probes[i].id => InputAfter(probes[i], probes'[j]) = probes[i] ]_vars

(***************************************************************************)
(* Throttles: an autonomous probe in deep space under short frames         *)
(***************************************************************************)

ThrottleHome == StarSystem(1, 1940, TRUE, 50, 0, 0, 0)

ThrottleFar == [StarSystem(2, 2150, FALSE, 50, 0, 0, 0) EXCEPT !.discovered = TRUE]

ThrottleDeltas == {300, 600, 1100}

InitThrottle ==
  \E plutonium \in {20, 60} :
    World(<< [DockedProbe("probe-0", ThrottleHome, Stats(1, 1, 3, 300, 1, 1), [Metal |-> 0, Plutonium |-> plutonium])
                EXCEPT !.isAutonomyEnabled = TRUE] >>,
          << ThrottleHome, ThrottleFar >>,
          { SectorKey(ThrottleHome.position), SectorKey(ThrottleFar.position) })

NextThrottle ==
  \/ \E delta \in ThrottleDeltas : Tick(delta, << >>) /\ InRange(probes', systems', MinX, MaxX)
  \/ \E heading \in {0, 180} :
       handleDeepSpaceLaunch(heading) /\ InRange(probes', systems', MinX, MaxX)
  \/ handleToggleAutonomy("probe-0")

SpecThrottle == InitThrottle /\ [][NextThrottle]_vars

\* the Exploring steps of the tick recorded in h
ExploreSteps(h) == SelectSeq(h.steps, LAMBDA o : o.kind = "explore")

LogSite == StarSystem(1, 1500, TRUE, 50, 6, 4, 0)

LogDeltas == {1000, 2500}

InitLog ==
  /\ probes = << [DockedProbe("probe-0", LogSite, Stats(1, 1, 1, 300, 1, 2), [Metal |-> 0, Plutonium |-> 0])
                   EXCEPT !.aiModules = {"FocusMining"}] >>
  /\ systems = << LogSite >>
  /\ generatedSectors = { SectorKey(LogSite.position) }
  /\ science = 0
  /\ relays = << >>
  /\ purchasedUnlocks = << >>
  /\ unlockedAIBehaviors = {"FocusMining"}
  /\ selectedProbeId = "probe-0"
  /\ rendered = [ probes |-> probes, systems |-> systems, relays |-> << >>,
                  purchasedUnlocks |-> << >>, unlockedAIBehaviors |-> {"FocusMining"},
                  selectedProbeId |-> "probe-0", undefinedFields |-> {} ]
  /\ undefinedFields = {}
  /\ pendingNames = << >>
  /\ maxStatLevelOverrides = NoOverrides
  /\ hist = Command("load")

NextLog ==
  \/ Render
  \/ Settled /\ \E delta \in LogDeltas : Tick(delta, << >>)
  \/ Settled /\ \E behavior \in {"None", "FocusMining"} : handleSetAIBehavior("probe-0", behavior)

SpecLog == InitLog /\ [][NextLog]_vars

\* C35: after every behaviour-mode decision taken for a probe the probe's
\* decision log ends with the justification of the decision and holds at most
\* 10 entries; a log that was full has dropped its oldest entry.
C35_DecisionLogged ==
  \A i \in 1..Len(probes) :
    LET result == processAutonomousProbe(probes[i], systems, Seen.colonized, RelaySystems, FALSE) IN
    result.decision # << >> =>
      /\ result.probe.aiDecisionLog # << >>
      /\ LET log == result.probe.aiDecisionLog[1] IN
         /\ Len(log) \in 1..10
         /\ log[Len(log)] = result.decision[1].reason
         /\ probes[i].aiDecisionLog # << >> /\ Len(probes[i].aiDecisionLog[1]) = 10
              => SubSeq(log, 1, 9) = Tail(probes[i].aiDecisionLog[1])

(***************************************************************************)
(* Progress                                                                *)
(***************************************************************************)

\* C36: in every committed state the progress of each probe lies within
\* 0..100, and whenever a step changes the state of a probe (a tick, an
\* autonomy decision or a command) the probe's progress is 0 after it.
C36_ProgressReset ==
  [][ /\ \A j \in 1..Len(probes') : probes'[j].progress >= 0 /\ probes'[j].progress <= 100 * ProgUnit
      /\ \A i \in 1..Len(probes) : \A j \in 1..Len(probes') :
           probes'[j].id = probes[i].id /\ probes'[j].state # probes[i].state
             => probes'[j].progress = 0 ]_vars

\* C36 (amended): the progress of each probe lies within 0..100 in every
\* committed state, and every change of a probe's state sets its progress to
\* 0: after a command that changed the state the progress is 0, and after a
\* tick that changed it the progress is 0 unless the tick's autonomy decision
\* had put the probe, with progress 0, into the state that the state
\* processor then advanced in the same tick.
C36_ResetOnChange ==
  [][ /\ \A j \in 1..Len(probes') : probes'[j].progress >= 0 /\ probes'[j].progress <= 100 * ProgUnit
      /\ \A i \in 1..Len(probes) : \A j \in 1..Len(probes') :
           probes'[j].id = probes[i].id /\ probes'[j].state # probes[i].state /\ probes'[j].progress # 0
             => /\ hist'.op = "tick"
                /\ LET auto == RunAutonomy(Seen, AtNow(probes[i], hist'.delta), RelaySystems,
                                           Includes(purchasedUnlocks, "quantum_relay_network"))
                   IN /\ CommitReplicate(auto).state = probes'[j].state
                      /\ CommitReplicate(auto).progress = 0 ]_vars

\* the engine has put the probe to its scan and the same tick has taken the
\* scan its first step on
C36_Witness ==
  /\ hist.op = "tick"
  /\ \E i \in 1..Len(probes) :
       /\ probes[i].state = "Scanning"
       /\ probes[i].isAutonomyEnabled
       /\ probes[i].progress = ((probes[i].stats.scanSpeed * hist.delta) \div 30) * ProgUnit

(***************************************************************************)
(* Saving: a world is exported and the file is loaded again                *)
(***************************************************************************)

\* writes the file for gameState and appends a line to the log
handleExportSave ==
  /\ hist' = [op |-> "export", delta |-> 0,
              steps |-> << [kind |-> "export", file |-> dataToSave(GameState, undefinedFields)] >>]
  /\ UNCHANGED WorldVars

NextSave ==
  \/ \E file \in Files : handleImportSave(file)
  \/ \E delta \in LoadDeltas : Tick(delta, << >>)
  \/ handleMine("Metal")
  \/ handleStopOperation
  \/ handleExportSave
  \/ hist.op = "export" /\ handleImportSave(hist.steps[1].file)

SpecSave == InitLoad /\ [][NextSave]_vars

InitStale ==
  /\ probes = << DockedProbe("probe-0", LoadSite, MarkI, [Metal |-> 500, Plutonium |-> 0]) >>
  /\ systems = << LoadSite >>
  /\ generatedSectors = { SectorKey(LoadSite.position) }
  /\ science = 0
  /\ relays = << >>
  /\ purchasedUnlocks = << RELAY_NETWORK >>
  /\ unlockedAIBehaviors = {}
  /\ selectedProbeId = "probe-0"
  /\ rendered = [ probes |-> probes, systems |-> systems, relays |-> << >>,
                  purchasedUnlocks |-> << RELAY_NETWORK >>, unlockedAIBehaviors |-> {},
                  selectedProbeId |-> "probe-0", undefinedFields |-> {} ]
  /\ undefinedFields = {}
  /\ pendingNames = << >>
  /\ maxStatLevelOverrides = NoOverrides
  /\ hist = Command("load")

\* the state set by reader.onload, like that of an animation frame, is not
\* rendered before the next event is handled
Unrendered == Settled \/ hist.op = "import"

NextStale ==
  \/ Render
  \/ Settled /\ \E delta \in LoadDeltas : Tick(delta, << >>)
  \/ Settled /\ \E file \in Files : handleImportSave(file)
  \/ Unrendered /\ handleDeployRelay
  \/ Settled /\ handleMine("Metal")

SpecStale == InitStale /\ [][NextStale]_vars

\* C38: at most one relay exists per system in every reachable state, and
\* every relay deployed costs its probe exactly 400 Metal, once, also when
\* the world changes between the validation of the command and the
\* application of its update.
C38_OneRelayPerSystem ==
  [][ /\ \A k, m \in 1..Len(relays') : relays'[k].systemId = relays'[m].systemId => k = m
      /\ hist'.op = "deployRelay" =>
           /\ Len(relays') = Len(relays) + 1
           /\ Len(probes') = Len(probes)
           /\ \E i \in 1..Len(probes) :
                /\ probes'[i].inventory.Metal = probes[i].inventory.Metal - RELAY_DEPLOY_COST_METAL
                /\ \A j \in 1..Len(probes) : j # i => probes'[j] = probes[j] ]_vars

(***************************************************************************)
(* The cost of a blueprint                                                 *)
(***************************************************************************)

LedgerSite == StarSystem(1, 1500, TRUE, 50, 3, 0, 0)

LedgerDeltas == {1000, 20000}

InitLedger ==
  World(<< DockedProbe("probe-0", LedgerSite, MarkI, [Metal |-> 100, Plutonium |-> 40]) >>,
        << LedgerSite >>,
        { SectorKey(LedgerSite.position) })

NextLedger ==
  \/ \E delta \in LedgerDeltas : Tick(delta, << >>)
  \/ handleReplicate(BpMark1)
  \/ handleMine("Metal")
  \/ handleStopOperation

SpecLedger == InitLedger /\ [][NextLedger]_vars

\* the Metal a probe has paid for the blueprint it holds
HeldMetal(probe) ==
  IF probe.pendingBlueprint = << >> THEN 0 ELSE probe.pendingBlueprint[1].cost.Metal

\* C39: the resources deducted when a replication starts are never lost: a
\* command moves Metal only between the inventory and the blueprint held, a
\* stop of a probe that holds a blueprint refunds it, and a tick takes the
\* blueprint from a probe only by completing it into exactly one new probe.
C39_CostNeverLost ==
  [][ \A i \in 1..Len(probes) : \A j \in 1..Len(probes') :
        probes'[j].id = probes[i].id =>
          IF hist'.op = "tick"
          THEN \/ probes'[j].pendingBlueprint = probes[i].pendingBlueprint
               \/ /\ probes'[j].pendingBlueprint = << >>
                  /\ Cardinality({ k \in 1..Len(SpawnSteps(hist')) :
                                     SpawnSteps(hist')[k].probe = probes[i].id }) = 1
          ELSE /\ probes'[j].inventory.Metal + HeldMetal(probes'[j])
                    = probes[i].inventory.Metal + HeldMetal(probes[i])
               /\ hist'.op = "stop" /\ probes[i].id = selectedProbeId /\ probes[i].pendingBlueprint # << >>
                    => probes'[j].pendingBlueprint = << >> ]_vars

(***************************************************************************)
(* Sails: an exploring probe without fuel docks, refuels and travels on    *)
(***************************************************************************)

SailHome == StarSystem(1, 1940, TRUE, 50, 0, 20, 0)

SailFar == [StarSystem(2, 1990, FALSE, 50, 0, 20, 0) EXCEPT !.discovered = TRUE]

SailThird == [StarSystem(3, 1900, FALSE, 50, 0, 20, 0) EXCEPT !.discovered = TRUE]

SailDeltas == {10000}

InitSail ==
  World(<< [ DockedProbe("probe-0", SailHome, Stats(1, 1, 1, 300, 1, 2), [Metal |-> 0, Plutonium |-> 0])
               EXCEPT !.aiBehavior = "FocusExploring", !.aiModules = {"FocusExploring"} ] >>,
        << SailHome, SailFar, SailThird >>,
        { SectorKey(SailHome.position) })

NextSail ==
  \/ \E delta \in SailDeltas : Tick(delta, << >>) /\ InRange(probes', systems', MinX, MaxX)
  \/ \E heading \in {0, 180} :
       handleDeepSpaceLaunch(heading) /\ InRange(probes', systems', MinX, MaxX)

SpecSail == InitSail /\ [][NextSail]_vars

\* C40: a probe that enters Traveling with the fuel of the trip deducted (a
\* manual launch with enough fuel or a travel decision of the engine) is not
\* solar-sailing, and stays so for the whole trip.
C40_PaidTripAtFullSpeed ==
  [][ \A i \in 1..Len(probes) : \A j \in 1..Len(probes') :
        probes'[j].id = probes[i].id /\ probes'[j].state = "Traveling" =>
          /\ probes[i].state # "Traveling"
                /\ probes'[j].inventory.Plutonium < probes[i].inventory.Plutonium
                => ~probes'[j].isSolarSailing
          /\ probes[i].state = "Traveling" /\ ~probes[i].isSolarSailing
                /\ probes'[j].targetSystemId = probes[i].targetSystemId
                /\ probes'[j].progress >= probes[i].progress
                => ~probes'[j].isSolarSailing ]_vars

====
